---- MODULE Spec2Model ----
(***************************************************************************)
(* Transfer composition pipeline of circles-rs: the path -> flow-matrix    *)
(* translator (crates/pathfinder), the wrapper reconciliation helpers      *)
(* (crates/pathfinder/src/path.rs) and the transfer builder               *)
(* (crates/transfers/src/builder.rs).                                      *)
(*                                                                         *)
(* Addresses are 20-byte values compared byte-wise; a big-endian byte      *)
(* string compares like the number it spells, so an address is modelled    *)
(* as a natural number and Address::ZERO as 0.  TLC integers are 32 bits   *)
(* wide, so the 192/256-bit amount domains are scaled down to              *)
(* AmountBits/WideBits bits; all arithmetic keeps the source's wrapping    *)
(* or saturating behaviour at the scaled width.  For the same reason a     *)
(* byte is scaled down to ByteBits bits, so that a u16 coordinate (two     *)
(* bytes) can overflow on a path of a size that can be enumerated.         *)
(***************************************************************************)
EXTENDS Integers, Sequences, FiniteSets, TLC

\* ---------------------------------------------------------------- bounds
MaxLen == 2
AmountBits == 4
ByteBits == 2

\* ------------------------------------------------------------- constants
\* u8 and u16 at the scaled width
BYTE_MOD == 2 ^ ByteBits
U16_MOD == BYTE_MOD * BYTE_MOD

\* ------------------------------------------------------------ data types
\* Address::ZERO and two further addresses
Address == {0, 1, 2}

ThirdParty == CHOOSE a \in Address : \A b \in Address : b <= a

U192_MOD == 2 ^ AmountBits
U192_MAX == U192_MOD - 1

Amounts == {0, 1, U192_MAX}

ExpectedValues == {0, 1, 2, U192_MAX}

\* a step moves the sender's own token or a third party's
TransferStep ==
    {st \in [from_address : Address, to_address : Address,
             token_owner : Address, value : Amounts] :
        st.token_owner \in {st.from_address, ThirdParty}}

SeqsUpTo(S, n) == UNION {[1 .. k -> S] : k \in 0 .. n}

NoResult == [kind |-> "none"]

\* ------------------------------------------------------------- packing.rs
\* a.as_slice().cmp(b.as_slice()) == Less
AddrLessFlipped(a, b) == a > b

AddrLess(a, b) == a < b

RECURSIVE SortAddresses(_)
SortAddresses(S) ==
    IF S = {} THEN <<>>
    ELSE LET m == CHOOSE x \in S : \A y \in S \ {x} : AddrLess(x, y)
         IN  <<m>> \o SortAddresses(S \ {m})

AddressSet(steps, from, to) ==
    {from, to} \cup
    UNION {{steps[i].from_address, steps[i].to_address, steps[i].token_owner} :
              i \in DOMAIN steps}

TransformToFlowVertices(steps, from, to) ==
    LET sorted == SortAddresses(AddressSet(steps, from, to))
        idx == [a \in {sorted[i] : i \in DOMAIN sorted} |->
                   (CHOOSE i \in DOMAIN sorted : sorted[i] = a) - 1]
    IN  [sorted |-> sorted, idx |-> idx]

RECURSIVE PackCoordinatesLE(_)
PackCoordinatesLE(coords) ==
    IF coords = <<>> THEN <<>>
    ELSE <<Head(coords) % BYTE_MOD, (Head(coords) \div BYTE_MOD) % BYTE_MOD>>
            \o PackCoordinatesLE(Tail(coords))

RECURSIVE PackCoordinates(_)
PackCoordinates(coords) ==
    IF coords = <<>> THEN <<>>
    ELSE <<(Head(coords) \div BYTE_MOD) % BYTE_MOD, Head(coords) % BYTE_MOD>>
            \o PackCoordinates(Tail(coords))

\* ---------------------------------------------------------------- flow.rs
AsU16(i) == i % U16_MOD

\* ruint: Sum for Uint folds with wrapping_add
RECURSIVE SumU192(_)
SumU192(amounts) ==
    IF amounts = <<>> THEN 0
    ELSE (Head(amounts) + SumU192(Tail(amounts))) % U192_MOD

\* transfers.iter().rposition(|t| t.to_address == receiver), 0-based, -1 for None
RPosition(steps, receiver) ==
    LET hits == {i \in DOMAIN steps : steps[i].to_address = receiver}
    IN  IF hits = {} THEN -1
        ELSE (CHOOSE i \in hits : \A j \in hits : j <= i) - 1

\* t.from_address compared instead of t.to_address
InitialEdgesBySource(steps, receiver) ==
    [i \in DOMAIN steps |->
        [stream_sink_id |-> IF steps[i].from_address = receiver THEN 1 ELSE 0,
         amount |-> steps[i].value]]

InitialEdges(steps, receiver) ==
    [i \in DOMAIN steps |->
        [stream_sink_id |-> IF steps[i].to_address = receiver THEN 1 ELSE 0,
         amount |-> steps[i].value]]

HasTerminal(edges) == \E i \in DOMAIN edges : edges[i].stream_sink_id = 1

\* the filter on stream_sink_id left out
AllAmounts(edges) == [i \in DOMAIN edges |-> edges[i].amount]

TerminalAmounts(edges) ==
    LET F[i \in 0 .. Len(edges)] ==
            IF i = 0 THEN <<>>
            ELSE IF edges[i].stream_sink_id = 1
                 THEN Append(F[i - 1], edges[i].amount)
                 ELSE F[i - 1]
    IN  F[Len(edges)]

\* ids counted from 1
TerminalEdgeIdsOneBased(edges) ==
    LET F[i \in 0 .. Len(edges)] ==
            IF i = 0 THEN <<>>
            ELSE IF edges[i].stream_sink_id = 1
                 THEN Append(F[i - 1], AsU16(i))
                 ELSE F[i - 1]
    IN  F[Len(edges)]

TerminalEdgeIds(edges) ==
    LET F[i \in 0 .. Len(edges)] ==
            IF i = 0 THEN <<>>
            ELSE IF edges[i].stream_sink_id = 1
                 THEN Append(F[i - 1], AsU16(i - 1))
                 ELSE F[i - 1]
    IN  F[Len(edges)]

\* terminal_sum != value, with the comparison weakened
ImbalancedBelow(terminal_sum, expected) == terminal_sum < expected

Imbalanced(terminal_sum, expected) == terminal_sum # expected

StepCoordinates(steps, idx) ==
    LET F[i \in 0 .. Len(steps)] ==
            IF i = 0 THEN <<>>
            ELSE F[i - 1] \o <<AsU16(idx[steps[i].token_owner]),
                               AsU16(idx[steps[i].from_address]),
                               AsU16(idx[steps[i].to_address])>>
    IN  F[Len(steps)]

CreateFlowMatrix(from, to, expected, steps) ==
    LET fv == TransformToFlowVertices(steps, from, to)
        edges0 == InitialEdges(steps, to)
        promote == ~HasTerminal(edges0)
        rpos == RPosition(steps, to)
        \* unwrap_or(flow_edges.len() - 1) is evaluated eagerly: with no step
        \* the subtraction overflows (debug) or the index is out of range
        fallback == IF rpos >= 0 THEN rpos ELSE Len(edges0) - 1
    IN  IF promote /\ Len(steps) = 0 THEN [kind |-> "panic"]
        ELSE
        LET flow_edges ==
                IF promote
                THEN [edges0 EXCEPT ![fallback + 1].stream_sink_id = 1]
                ELSE edges0
            terminal_sum == SumU192(TerminalAmounts(flow_edges))
        IN  IF Imbalanced(terminal_sum, expected)
            THEN [kind |-> "err", error |-> "Imbalanced",
                  terminal_sum |-> terminal_sum, expected |-> expected]
            ELSE [kind |-> "ok",
                  flow_vertices |-> fv.sorted,
                  flow_edges |-> flow_edges,
                  streams |-> <<[source_coordinate |-> AsU16(fv.idx[from]),
                                 flow_edge_ids |-> TerminalEdgeIds(flow_edges),
                                 data |-> <<>>]>>,
                  packed_coordinates |->
                      PackCoordinates(StepCoordinates(steps, fv.idx)),
                  source_coordinate |-> AsU16(fv.idx[from])]

\* ------------------------------------------------------------ converter.rs
\* the 1e36 fixed point of the source, scaled to 1e4 to fit 32-bit integers:
\* 0.93^(1/365.25) and its inverse, rounded half-up
ONE_36 == 10000
GAMMA_36 == 9998
BETA_36 == 10002

SECONDS_PER_DAY == 86400
INFLATION_DAY_ZERO_UNIX == 1602720000

\* i64 division truncates toward zero
TruncDiv(a, b) == IF a >= 0 THEN a \div b ELSE 0 - ((0 - a) \div b)

DayFromTimestamp(unix_seconds) ==
    TruncDiv(unix_seconds - INFLATION_DAY_ZERO_UNIX, SECONDS_PER_DAY)

RECURSIVE Pow36Loop(_, _, _)
Pow36Loop(result, b, e) ==
    IF e = 0 THEN result
    ELSE Pow36Loop(IF e % 2 = 1 THEN (result * b) \div ONE_36 ELSE result,
                   (b * b) \div ONE_36,
                   e \div 2)

Pow36Computed(base, exp) == Pow36Loop(ONE_36, base, exp)

\* timestamp recorded for a wrapper's deployment
DeployTimestamp == 1700000000

\* readings of the wall clock
ClockReadings == {1762000000, 1762000000 + SECONDS_PER_DAY}

\* pow36 is a pure function: its values on the days of the timestamps above
\* are computed once
Pow36Table ==
    [base \in {GAMMA_36, BETA_36},
     day \in {DayFromTimestamp(t) : t \in {DeployTimestamp} \cup ClockReadings} |->
        Pow36Computed(base, day)]

Pow36(base, exp) ==
    IF <<base, exp>> \in DOMAIN Pow36Table
    THEN Pow36Table[base, exp]
    ELSE Pow36Computed(base, exp)

\* U256 is WideBits wide; U192 is AmountBits wide
WideBits == AmountBits + 2
U256_MOD == 2 ^ WideBits
U256_MAX == U256_MOD - 1

\* keeps the low 256 bits
BigToU256(val) == val % U256_MOD

\* an Option is a sequence of at most one element
None == <<>>
Some(x) == <<x>>

\* now_unix_seconds.unwrap_or_else(now_ts)
UnwrapOrNow(hint, now) == IF hint = None THEN now ELSE hint[1]

AttoCirclesToAttoStaticCircles(demurraged, hint, now) ==
    LET day == DayFromTimestamp(UnwrapOrNow(hint, now))
    IN  IF day < 0 THEN demurraged
        ELSE BigToU256((demurraged * Pow36(BETA_36, day)) \div ONE_36)

AttoStaticCirclesToAttoCircles(static_circles, hint, now) ==
    LET day == DayFromTimestamp(UnwrapOrNow(hint, now))
    IN  IF day < 0 THEN static_circles
        ELSE BigToU256((static_circles * Pow36(GAMMA_36, day)) \div ONE_36)

\* --------------------------------------- converter.rs at its own precision
\* num_bigint::BigUint, U256 and u64 values too large for 32-bit integers:
\* a natural number is the sequence of its base-1000 digits, lowest first,
\* without leading zero digits (0 is the empty sequence)
LIMB == 1000

RECURSIVE BigNorm(_)
BigNorm(a) ==
    IF a = <<>> THEN <<>>
    ELSE IF a[Len(a)] = 0 THEN BigNorm(SubSeq(a, 1, Len(a) - 1))
    ELSE a

RECURSIVE BigFromInt(_)
BigFromInt(n) == IF n = 0 THEN <<>> ELSE <<n % LIMB>> \o BigFromInt(n \div LIMB)

\* for values below 2^31
RECURSIVE BigToInt(_)
BigToInt(a) == IF a = <<>> THEN 0 ELSE a[1] + LIMB * BigToInt(Tail(a))

Digit(a, i) == IF i \in DOMAIN a THEN a[i] ELSE 0

\* digits of a number given by digit sums that may exceed the base
RECURSIVE Carry(_, _)
Carry(cols, c) ==
    IF cols = <<>> THEN BigFromInt(c)
    ELSE <<(Head(cols) + c) % LIMB>> \o Carry(Tail(cols), (Head(cols) + c) \div LIMB)

RECURSIVE ColumnSum(_, _, _, _)
ColumnSum(a, b, k, i) ==
    IF i > Len(a) THEN 0
    ELSE a[i] * Digit(b, k + 1 - i) + ColumnSum(a, b, k, i + 1)

BigMul(a, b) ==
    IF a = <<>> \/ b = <<>> THEN <<>>
    ELSE BigNorm(Carry([k \in 1 .. (Len(a) + Len(b) - 1) |-> ColumnSum(a, b, k, 1)], 0))

BigAdd(a, b) ==
    LET n == IF Len(a) > Len(b) THEN Len(a) ELSE Len(b)
    IN  BigNorm(Carry([k \in 1 .. n |-> Digit(a, k) + Digit(b, k)], 0))

RECURSIVE BigLessFrom(_, _, _)
BigLessFrom(a, b, i) ==
    IF i = 0 THEN FALSE
    ELSE IF a[i] # b[i] THEN a[i] < b[i]
    ELSE BigLessFrom(a, b, i - 1)

BigLess(a, b) ==
    IF Len(a) # Len(b) THEN Len(a) < Len(b) ELSE BigLessFrom(a, b, Len(a))

\* a - b for a >= b
RECURSIVE Borrow(_, _, _, _)
Borrow(a, b, i, c) ==
    IF i > Len(a) THEN <<>>
    ELSE LET d == a[i] - Digit(b, i) - c
         IN  IF d < 0 THEN <<d + LIMB>> \o Borrow(a, b, i + 1, 1)
             ELSE <<d>> \o Borrow(a, b, i + 1, 0)

BigSub(a, b) == BigNorm(Borrow(a, b, 1, 0))

\* a div n for 0 < n < 2^31 / LIMB, from the highest digit down
RECURSIVE LongDiv(_, _, _, _)
LongDiv(a, n, i, rem) ==
    IF i = 0 THEN <<>>
    ELSE LongDiv(a, n, i - 1, (rem * LIMB + a[i]) % n)
            \o <<(rem * LIMB + a[i]) \div n>>

BigDivSmall(a, n) == BigNorm(LongDiv(a, n, Len(a), 0))

\* a div LIMB^k
BigDivPow(a, k) == IF Len(a) <= k THEN <<>> ELSE SubSeq(a, k + 1, Len(a))

\* a^(2^n)
RECURSIVE BigSquared(_, _)
BigSquared(a, n) == IF n = 0 THEN a ELSE BigSquared(BigMul(a, a), n - 1)

TWO_256 == BigSquared(<<2>>, 8)

\* gamma cut to 18 digits
gamma_18 == <<0, 0, 0, 0, 0, 0, 957, 598, 8, 332, 801, 999>>

\* 0.93^(1/365.25) and its inverse scaled to 1e36, and 1e36 = LIMB^12
gamma_36 == <<166, 191, 568, 406, 613, 430, 957, 598, 8, 332, 801, 999>>
beta_36 == <<962, 303, 13, 489, 271, 156, 629, 214, 468, 707, 198, 0, 1>>
one_36 == <<0, 0, 0, 0, 0, 0, 0, 0, 0, 0, 0, 0, 1>>

\* x / one_36()
DivOne36(a) == BigDivPow(a, Len(one_36) - 1)

\* a mod m for m > 0
RECURSIVE BigMod(_, _)
BigMod(a, m) ==
    IF BigLess(a, m) THEN a
    ELSE LET r == BigMod(a, BigAdd(m, m))
         IN  IF BigLess(r, m) THEN r ELSE BigSub(r, m)

\* day_from_timestamp on u64 timestamps below 2^63, where `as i64` keeps the
\* value; i64 division truncates toward zero
day_from_timestamp(unix_seconds) ==
    LET zero == BigFromInt(INFLATION_DAY_ZERO_UNIX)
    IN  IF BigLess(unix_seconds, zero)
        THEN 0 - BigToInt(BigDivSmall(BigSub(zero, unix_seconds), SECONDS_PER_DAY))
        ELSE BigToInt(BigDivSmall(BigSub(unix_seconds, zero), SECONDS_PER_DAY))

RECURSIVE pow36_loop(_, _, _)
pow36_loop(result, b, e) ==
    IF e = 0 THEN result
    ELSE pow36_loop(IF e % 2 = 1 THEN DivOne36(BigMul(result, b)) ELSE result,
                    DivOne36(BigMul(b, b)),
                    e \div 2)

pow36_from_base(base, exp) == pow36_loop(base, base, exp)

pow36(base, exp) == pow36_loop(one_36, base, exp)

\* the four limbs of a U256 spell the same number
u256_to_big(val) == val

\* keeps the low four 64-bit limbs
big_to_u256(val) == BigMod(val, TWO_256)

atto_circles_to_atto_static_circles(demurraged, now_unix_seconds, now) ==
    LET day == day_from_timestamp(UnwrapOrNow(now_unix_seconds, now))
    IN  IF day < 0 THEN demurraged
        ELSE big_to_u256(DivOne36(BigMul(u256_to_big(demurraged), pow36(beta_36, day))))

atto_static_circles_to_atto_circles(static_circles, now_unix_seconds, now) ==
    LET day == day_from_timestamp(UnwrapOrNow(now_unix_seconds, now))
    IN  IF day < 0 THEN static_circles
        ELSE big_to_u256(DivOne36(BigMul(u256_to_big(static_circles), pow36(gamma_36, day))))

\* ------------------------------------------------- addresses of a transfer
\* the hub, the receiving avatar, two wrapper contracts and the sending
\* avatar, in the byte order of their addresses
HUB == 1
AVATAR_TO == 2
WRAPPER_B == 3
WRAPPER_C == 4
AVATAR_FROM == 5

\* ---------------------------------------------------- address <-> string
\* token_owner of a path step is text.  Forms of the text of an address:
\*   "lower"    0x and 40 lowercase hex digits
\*   "checksum" 0x and 40 hex digits in EIP-55 mixed case
\*   "bare"     40 lowercase hex digits, no 0x
\*   "invalid"  text that spells no address
Text(a, f) == [addr |-> a, form |-> f]

InvalidText == Text(0, "invalid")

\* Address::from_str: hex of 20 bytes, any case, the 0x optional
AddressFromStr(s) == IF s.form = "invalid" THEN None ELSE Some(s.addr)

\* str::to_lowercase
ToLowercase(s) == IF s.form = "checksum" THEN Text(s.addr, "lower") ELSE s

\* Address::to_string: EIP-55; an address spelled with digits only has no
\* letter to capitalise
ToChecksumString(a) ==
    IF a \in {0, HUB} THEN Text(a, "lower") ELSE Text(a, "checksum")

\* format!("{a:#x}")
FormatLowerHex(a) == Text(a, "lower")

\* ------------------------------------------------------------------ maps
EmptyMap == [k \in {} |-> 0]

MapPut(m, k, v) == [x \in DOMAIN m \cup {k} |-> IF x = k THEN v ELSE m[x]]

\* -------------------------------------------------------- token info, path
DEMURRAGED == "CrcV2_ERC20WrapperDeployed_Demurraged"
INFLATIONARY == "CrcV2_ERC20WrapperDeployed_Inflationary"
REGISTER_HUMAN == "CrcV2_RegisterHuman"
\* a wrapper type as the token-info service may report it, without a suffix
WRAPPER_DEPLOYED == "CrcV2_ERC20WrapperDeployed"

\* token_type.starts_with("CrcV2_ERC20WrapperDeployed")
IsWrapperType(ty) == ty \in {WRAPPER_DEPLOYED, DEMURRAGED, INFLATIONARY}

TokenInfo(ty, ts, owner) == [token_type |-> ty, timestamp |-> ts, token_owner |-> owner]

\* what the token-info resolver knows of WRAPPER_B: nothing, or a wrapper of
\* AVATAR_TO's token, with or without a recorded timestamp
InfoOfWrapperB ==
    {None,
     Some(TokenInfo(DEMURRAGED, DeployTimestamp, AVATAR_TO)),
     Some(TokenInfo(INFLATIONARY, DeployTimestamp, AVATAR_TO)),
     Some(TokenInfo(INFLATIONARY, 0, AVATAR_TO))}

\* WRAPPER_C wraps AVATAR_FROM's token as inflationary
InfoOfWrapperC ==
    {Some(TokenInfo(INFLATIONARY, DeployTimestamp, AVATAR_FROM))}

\* token_info_map as token_info_map_from_path leaves it: wrapper types normalised
TokenInfoMaps ==
    {[a \in {AVATAR_FROM, WRAPPER_C} \cup (IF b = None THEN {} ELSE {WRAPPER_B}) |->
         IF a = AVATAR_FROM THEN TokenInfo(REGISTER_HUMAN, DeployTimestamp, AVATAR_FROM)
         ELSE IF a = WRAPPER_C THEN c[1] ELSE b[1]] :
        b \in InfoOfWrapperB, c \in InfoOfWrapperC}

\* static balances of the sender, per wrapper
BalanceMaps ==
    {EmptyMap,
     [a \in {WRAPPER_B, WRAPPER_C} |-> 3],
     [a \in {WRAPPER_B, WRAPPER_C} |-> 20]}

PathStep(f, t, owner, v) == [from |-> f, to |-> t, token_owner |-> owner, value |-> v]

PathValues == {2, 5}

\* steps a pathfinder response is made of
PathSteps ==
    {PathStep(AVATAR_FROM, AVATAR_TO, Text(o, "lower"), v) :
        o \in {WRAPPER_B, WRAPPER_C, AVATAR_FROM}, v \in PathValues}
    \cup {PathStep(AVATAR_FROM, AVATAR_TO, s, 2) :
            s \in {Text(WRAPPER_B, "checksum"), Text(WRAPPER_B, "bare"),
                   Text(AVATAR_FROM, "checksum"), InvalidText}}
    \cup {PathStep(AVATAR_FROM, AVATAR_TO, Text(WRAPPER_B, "lower"), 0),
          PathStep(AVATAR_FROM, AVATAR_TO, Text(AVATAR_FROM, "lower"), U256_MAX)}

MaxFlows == {2, 7, U256_MAX}

PathfindingResult == [max_flow : MaxFlows, transfers : SeqsUpTo(PathSteps, MaxLen)]

\* check_approval argument, the builder's check_approval field, the hub's
\* answer to isApprovedForAll (consulted only when both are set) and tx_data
BuildOptions ==
    {[check_approval |-> TRUE, builder_check_approval |-> TRUE, is_approved |-> TRUE,
      hub_reply |-> "approved", tx_data |-> None],
     [check_approval |-> TRUE, builder_check_approval |-> TRUE, is_approved |-> FALSE,
      hub_reply |-> "not_approved", tx_data |-> Some(<<1>>)],
     [check_approval |-> TRUE, builder_check_approval |-> TRUE, is_approved |-> TRUE,
      hub_reply |-> "failed", tx_data |-> None],
     [check_approval |-> FALSE, builder_check_approval |-> TRUE, is_approved |-> TRUE,
      hub_reply |-> "approved", tx_data |-> None],
     [check_approval |-> TRUE, builder_check_approval |-> FALSE, is_approved |-> TRUE,
      hub_reply |-> "approved", tx_data |-> None],
     [check_approval |-> TRUE, builder_check_approval |-> FALSE, is_approved |-> FALSE,
      hub_reply |-> "not_approved", tx_data |-> None]}

TsHint(info) == IF info.timestamp > 0 THEN Some(info.timestamp) ELSE None

\* now_ts() is read once in expected_unwrapped_totals and once in the loop of
\* the builder, for an inflationary wrapper whose token info has no timestamp
ClockReadsFor(totals, tim) ==
    IF \E w \in DOMAIN totals \cap DOMAIN tim :
          tim[w].token_type = INFLATIONARY /\ TsHint(tim[w]) = None
    THEN {r \in ClockReadings \X ClockReadings : r[1] <= r[2]}
    ELSE {<<0, 0>>}

\* orders in which a HashMap with the keys K may be iterated
HashOrders(K) ==
    {o \in [1 .. Cardinality(K) -> K] : \A k \in K : \E i \in DOMAIN o : o[i] = k}

\* ---------------------------------------------------------------- path.rs
SaturatingAddU256(a, b) == IF a + b > U256_MAX THEN U256_MAX ELSE a + b

SaturatingSubU256(a, b) == IF a > b THEN a - b ELSE 0

WrappedTotalsFromPath(path_, tim) ==
    LET F[i \in 0 .. Len(path_.transfers)] ==
            IF i = 0 THEN EmptyMap
            ELSE LET t == path_.transfers[i]
                     owner == AddressFromStr(t.token_owner)
                 IN  IF /\ owner # None
                        /\ owner[1] \in DOMAIN tim
                        /\ IsWrapperType(tim[owner[1]].token_type)
                     THEN LET prev == IF owner[1] \in DOMAIN F[i - 1]
                                      THEN F[i - 1][owner[1]]
                                      ELSE [total |-> 0,
                                            ty |-> tim[owner[1]].token_type]
                          IN  MapPut(F[i - 1], owner[1],
                                     [total |-> SaturatingAddU256(prev.total, t.value),
                                      ty |-> prev.ty])
                     ELSE F[i - 1]
    IN  F[Len(path_.transfers)]

ExpectedUnwrappedTotals(totals, tim, now) ==
    [w \in DOMAIN totals \cap DOMAIN tim |->
        [amount |-> IF totals[w].ty = INFLATIONARY
                    THEN AttoStaticCirclesToAttoCircles(totals[w].total,
                                                        TsHint(tim[w]), now)
                    ELSE totals[w].total,
         avatar |-> tim[w].token_owner]]

ReplaceWrappedTokens(path_, unwrapped) ==
    LET Key(w) == ToLowercase(ToChecksumString(w))
        wrapper_to_avatar ==
            [k \in {Key(w) : w \in DOMAIN unwrapped} |->
                unwrapped[CHOOSE w \in DOMAIN unwrapped : Key(w) = k].avatar]
        NewOwner(edge) ==
            IF ToLowercase(edge.token_owner) \in DOMAIN wrapper_to_avatar
            THEN wrapper_to_avatar[ToLowercase(edge.token_owner)]
            ELSE LET parsed == AddressFromStr(edge.token_owner)
                 IN  IF parsed = None THEN 0 ELSE parsed[1]
    IN  [max_flow |-> path_.max_flow,
         transfers |->
             [i \in DOMAIN path_.transfers |->
                 [path_.transfers[i] EXCEPT
                     !.token_owner = FormatLowerHex(NewOwner(path_.transfers[i]))]]]

\* -------------------------------------------------------------- builder.rs
U256ToU192Local(v) == IF v > U192_MAX THEN U192_MAX ELSE v

TransferTx(to, call) == [to |-> to, call |-> call, value |-> 0]

\* DemurrageCircles::unwrapCall and InflationaryCircles::unwrapCall encode alike
UnwrapCall(amount) == [fn |-> "unwrap", args |-> <<amount>>]

WrapCall(avatar, amount, type) == [fn |-> "wrap", args |-> <<avatar, amount, type>>]

SetApprovalForAllCall(operator, approved) ==
    [fn |-> "setApprovalForAll", args |-> <<operator, approved>>]

OperateFlowMatrixCall(fm) ==
    [fn |-> "operateFlowMatrix",
     args |-> <<fm.flow_vertices,
                [i \in DOMAIN fm.flow_edges |->
                    <<fm.flow_edges[i].stream_sink_id, fm.flow_edges[i].amount>>],
                [i \in DOMAIN fm.streams |->
                    <<fm.streams[i].source_coordinate, fm.streams[i].flow_edge_ids,
                      fm.streams[i].data>>],
                fm.packed_coordinates>>]

\* the re-wrap decided on the balance alone
RewrapsOfAnyBalance(wrapper, info, static_amt, balance_map_) ==
    IF wrapper \in DOMAIN balance_map_
    THEN <<TransferTx(HUB, WrapCall(info.token_owner,
                                    SaturatingSubU256(balance_map_[wrapper], static_amt), 1))>>
    ELSE <<>>

RewrapsOf(wrapper, info, static_amt, balance_map_) ==
    IF wrapper \in DOMAIN balance_map_
    THEN LET leftover == SaturatingSubU256(balance_map_[wrapper], static_amt)
         IN  IF leftover > 0
             THEN <<TransferTx(HUB, WrapCall(info.token_owner, leftover, 1))>>
             ELSE <<>>
    ELSE <<>>

\* one iteration of the loop over unwrapped_map
WrapperCalls(wrapper, unwrapped_map, tim, balance_map_, now) ==
    IF wrapper \notin DOMAIN tim THEN [unwraps |-> <<>>, rewraps |-> <<>>]
    ELSE LET info == tim[wrapper]
             amount_dem == unwrapped_map[wrapper].amount
         IN  IF info.token_type = DEMURRAGED
             THEN [unwraps |-> <<TransferTx(wrapper, UnwrapCall(amount_dem))>>,
                   rewraps |-> <<>>]
             ELSE IF info.token_type = INFLATIONARY
             THEN LET static_amt ==
                          AttoCirclesToAttoStaticCircles(amount_dem, TsHint(info), now)
                  IN  [unwraps |-> <<TransferTx(wrapper, UnwrapCall(static_amt))>>,
                       rewraps |-> RewrapsOf(wrapper, info, static_amt, balance_map_)]
             ELSE [unwraps |-> <<>>, rewraps |-> <<>>]

\* the loop, visiting the keys of unwrapped_map in the order of the hash table
UnwrapAndRewrapCalls(unwrapped_map, tim, balance_map_, order, now) ==
    LET F[i \in 0 .. Len(order)] ==
            IF i = 0 THEN [unwraps |-> <<>>, rewraps |-> <<>>]
            ELSE IF order[i] \in DOMAIN unwrapped_map
                 THEN LET c == WrapperCalls(order[i], unwrapped_map, tim,
                                            balance_map_, now)
                      IN  [unwraps |-> F[i - 1].unwraps \o c.unwraps,
                           rewraps |-> F[i - 1].rewraps \o c.rewraps]
                 ELSE F[i - 1]
    IN  F[Len(order)]

\* steps whose token_owner parses, as TransferStep
TransferStepsOf(path_) ==
    LET F[i \in 0 .. Len(path_.transfers)] ==
            IF i = 0 THEN <<>>
            ELSE LET t == path_.transfers[i]
                     owner == AddressFromStr(t.token_owner)
                 IN  IF owner = None THEN F[i - 1]
                     ELSE Append(F[i - 1],
                                 [from_address |-> t.from, to_address |-> t.to,
                                  token_owner |-> owner[1],
                                  value |-> U256ToU192Local(t.value)])
    IN  F[Len(path_.transfers)]

ValueOfFirstStep(path_) ==
    IF path_.transfers = <<>> THEN 0 ELSE U256ToU192Local(path_.transfers[1].value)

\* the expected value handed to create_flow_matrix
FlowMatrixExpected(path_) == U256ToU192Local(path_.max_flow)

\* check_approval && self.check_approval: the hub is asked
ApprovalQueried(o) == o.check_approval /\ o.builder_check_approval

NeedsApprovalByHubAlone(o) == o.hub_reply # "approved"

NeedsApprovalUnlessUnknown(o) ==
    IF ApprovalQueried(o) THEN o.hub_reply = "not_approved" ELSE TRUE

NeedsApproval(o) ==
    IF ApprovalQueried(o)
    THEN (IF o.hub_reply = "approved" THEN FALSE ELSE TRUE)
    ELSE TRUE

\* the re-wraps placed before the settlement call
OrderTransactionsRewrapFirst(approval, unwraps, operate, rewraps) ==
    approval \o unwraps \o rewraps \o <<operate>>

OrderTransactions(approval, unwraps, operate, rewraps) ==
    approval \o unwraps \o <<operate>> \o rewraps

AssembleTransactionsInner(from, to, path_, tim, totals, bals, o, order, now_a, now_b) ==
    LET unwrapped_map == ExpectedUnwrappedTotals(totals, tim, now_a)
        calls == UnwrapAndRewrapCalls(unwrapped_map, tim, bals, order, now_b)
        path_unwrapped_ == ReplaceWrappedTokens(path_, unwrapped_map)
        steps == TransferStepsOf(path_unwrapped_)
        fm == CreateFlowMatrix(from, to, FlowMatrixExpected(path_), steps)
        locals == [unwrapped_map |-> unwrapped_map, unwraps |-> calls.unwraps,
                   rewraps |-> calls.rewraps, path_unwrapped |-> path_unwrapped_,
                   calls |-> IF fm.kind = "ok" /\ ApprovalQueried(o)
                             THEN <<"isApprovedForAll">> ELSE <<>>]
    IN  IF fm.kind = "panic" THEN [locals |-> locals, ret |-> [kind |-> "panic"]]
        ELSE IF fm.kind = "err"
        THEN [locals |-> locals,
              ret |-> [kind |-> "err", error |-> "Generic", category |-> "FlowMatrix",
                       terminal_sum |-> fm.terminal_sum, expected |-> fm.expected]]
        ELSE
        LET flow_matrix ==
                IF o.tx_data # None
                THEN [fm EXCEPT !.streams[1].data = o.tx_data[1]]
                ELSE fm
            approval ==
                IF NeedsApproval(o)
                THEN <<TransferTx(HUB, SetApprovalForAllCall(from, TRUE))>>
                ELSE <<>>
        IN  [locals |-> locals,
             ret |-> [kind |-> "ok",
                      txs |-> OrderTransactions(approval, calls.unwraps,
                                  TransferTx(HUB, OperateFlowMatrixCall(flow_matrix)),
                                  calls.rewraps)]]

\* ------------------------------------- builder.rs: construct_advanced_transfer
\* 1e12 wei granularity, scaled like the amounts
SIX_DECIMALS_UNIT == 2

KeepAmount(amount) == amount

RoundUpToSixDecimals(amount) ==
    ((amount + SIX_DECIMALS_UNIT - 1) \div SIX_DECIMALS_UNIT) * SIX_DECIMALS_UNIT

TruncateToSixDecimals(amount) == (amount \div SIX_DECIMALS_UNIT) * SIX_DECIMALS_UNIT

AdvancedTransferOptions(uwb, from_tokens, to_tokens, tx_data) ==
    [use_wrapped_balances |-> uwb, from_tokens |-> from_tokens,
     to_tokens |-> to_tokens, tx_data |-> tx_data]

\* options.unwrap_or_else(..)
DefaultOptions == AdvancedTransferOptions(Some(TRUE), None, None, None)

OptionsOrDefault(options) == IF options = None THEN DefaultOptions ELSE options[1]

UseWrappedBalancesOrTrue(o) ==
    IF o.use_wrapped_balances = None THEN TRUE ELSE o.use_wrapped_balances[1]

\* use_wrapped_balances.unwrap_or(false)
UseWrappedBalances(o) ==
    IF o.use_wrapped_balances = None THEN FALSE ELSE o.use_wrapped_balances[1]

\* from == to with exactly one from_token and one different to_token
SelfUnwrapRequested(r) ==
    /\ r.from = r.to
    /\ r.options # None
    /\ r.options[1].from_tokens # None
    /\ r.options[1].to_tokens # None
    /\ Len(r.options[1].from_tokens[1]) = 1
    /\ Len(r.options[1].to_tokens[1]) = 1
    /\ r.options[1].from_tokens[1][1] # r.options[1].to_tokens[1][1]

\* answers of LiftERC20.erc20Circles: a failed call, or the wrapper address
\* (the zero address when there is none)
LiftReplies == {None, Some(0), Some(WRAPPER_B), Some(WRAPPER_C)}

SelfUnwrapOfAnyToken(from_token, to_token, amount, dem, inf, now) ==
    [calls |-> <<"erc20Circles", "erc20Circles">>,
     lift |-> [dem |-> dem, inf |-> inf],
     ret |-> [kind |-> "ok", tx |-> Some(TransferTx(from_token, UnwrapCall(amount)))]]

\* self_unwrap; dem and inf are the answers for circles type 0 and 1, the
\* second call is made only when the first succeeds
SelfUnwrap(from_token, to_token, amount, dem, inf, now) ==
    IF dem = None
    THEN [calls |-> <<"erc20Circles">>,
          lift |-> [dem |-> None, inf |-> None],
          ret |-> [kind |-> "err", error |-> "Generic", category |-> "Transfers"]]
    ELSE IF inf = None
    THEN [calls |-> <<"erc20Circles", "erc20Circles">>,
          lift |-> [dem |-> dem, inf |-> None],
          ret |-> [kind |-> "err", error |-> "Generic", category |-> "Transfers"]]
    ELSE [calls |-> <<"erc20Circles", "erc20Circles">>,
          lift |-> [dem |-> dem, inf |-> inf],
          ret |-> IF from_token = dem[1]
                  THEN [kind |-> "ok",
                        tx |-> Some(TransferTx(from_token, UnwrapCall(amount)))]
                  ELSE IF from_token = inf[1]
                  THEN [kind |-> "ok",
                        tx |-> Some(TransferTx(from_token,
                                   UnwrapCall(AttoCirclesToAttoStaticCircles(amount, None, now))))]
                  ELSE [kind |-> "ok", tx |-> None]]

AlwaysWrapped(totals) == TRUE

\* has_wrapped = !wrapped_totals.is_empty()
HasWrapped(totals) == totals # EmptyMap

\* FindPathParams as construct_advanced_transfer fills them
FindPathParams(from, to, target_flow, o) ==
    [from |-> from, to |-> to, target_flow |-> target_flow,
     use_wrapped_balances |-> o.use_wrapped_balances,
     from_tokens |-> o.from_tokens, to_tokens |-> o.to_tokens]

\* requests construct_advanced_transfer is called with
TransferRequest(to, amount, options, check) ==
    [from |-> AVATAR_FROM, to |-> to, amount |-> amount, options |-> options,
     builder_check_approval |-> check]

TransferRequests ==
    {TransferRequest(AVATAR_TO, a, o, c) :
        a \in {2, 7},
        o \in {None} \cup {Some(AdvancedTransferOptions(u, None, None, None)) :
                              u \in {None, Some(TRUE), Some(FALSE)}},
        c \in BOOLEAN}
    \cup {TransferRequest(AVATAR_TO, a, None, TRUE) : a \in {0, 3}}
    \cup {TransferRequest(AVATAR_FROM, 5,
                          Some(AdvancedTransferOptions(Some(TRUE), Some(ft), Some(tt), None)),
                          TRUE) :
            ft \in {<<WRAPPER_C>>, <<WRAPPER_B>>, <<AVATAR_FROM>>, <<WRAPPER_B, WRAPPER_C>>},
            tt \in {<<AVATAR_FROM>>}}

\* steps of the pathfinder's answers
AnswerSteps ==
    {PathStep(AVATAR_FROM, AVATAR_TO, Text(WRAPPER_B, "lower"), 2),
     PathStep(AVATAR_FROM, AVATAR_TO, Text(WRAPPER_B, "lower"), 0),
     PathStep(AVATAR_FROM, AVATAR_TO, Text(WRAPPER_C, "lower"), 5),
     PathStep(AVATAR_FROM, AVATAR_TO, Text(AVATAR_FROM, "lower"), 2),
     PathStep(AVATAR_FROM, AVATAR_TO, Text(AVATAR_FROM, "lower"), 5)}

\* answers of circlesV2_findPath: a failed call or a path
PathfinderReplies ==
    {None} \cup
    {Some([max_flow |-> m, transfers |-> t]) :
        m \in MaxFlows, t \in SeqsUpTo(AnswerSteps, MaxLen)}

\* what the token-info service holds: WRAPPER_B unknown, a demurraged wrapper
\* reported without suffix, or an inflationary wrapper
ResolverWorlds ==
    {IF WRAPPER_B \in DOMAIN w /\ w[WRAPPER_B].token_type = DEMURRAGED
     THEN [w EXCEPT ![WRAPPER_B].token_type = WRAPPER_DEPLOYED]
     ELSE w :
        w \in {m \in TokenInfoMaps :
                  \A a \in DOMAIN m : m[a].timestamp > 0}}

\* path.rs 18-27: owners of the steps the current avatar sends
OwnersSentBy(current_avatar, path_) ==
    {AddressFromStr(path_.transfers[i].token_owner)[1] :
        i \in {j \in DOMAIN path_.transfers :
                  /\ path_.transfers[j].from = current_avatar
                  /\ AddressFromStr(path_.transfers[j].token_owner) # None}}

\* path.rs 35-39; is_inflationary is token_type.contains("Inflationary")
NormaliseTokenInfo(info) ==
    IF IsWrapperType(info.token_type) /\ info.token_type # INFLATIONARY
    THEN [info EXCEPT !.token_type = DEMURRAGED]
    ELSE info

\* token_info_map_from_path; reply is the answer of get_token_info_batch,
\* None for a failed call, asked only when there is an owner to ask about
TokenInfoMapFromPath(current_avatar, path_, reply) ==
    LET unique == OwnersSentBy(current_avatar, path_)
    IN  IF unique = {} THEN [calls |-> <<>>, ret |-> Some(EmptyMap)]
        ELSE IF reply = None THEN [calls |-> <<"getTokenInfoBatch">>, ret |-> None]
        ELSE [calls |-> <<"getTokenInfoBatch">>,
              ret |-> Some([a \in unique \cap DOMAIN reply[1] |->
                               NormaliseTokenInfo(reply[1][a])])]


\* ------------------------------------------------- netted flow of a path
\* I256 is WideBits wide, two's complement
I256_MIN == 0 - (U256_MOD \div 2)
I256_MAX == (U256_MOD \div 2) - 1

\* I256::from_raw: the same bits read as a signed number
FromRaw(v) == IF v > I256_MAX THEN v - U256_MOD ELSE v

\* the low WideBits bits of i, read as a signed number
WrapI256(i) == ((i - I256_MIN) % U256_MOD) + I256_MIN

I256Overflows(i) == i < I256_MIN \/ i > I256_MAX

\* a step of a path, as far as the netting reads it
NettedStep(from, to, v) == [from |-> from, to |-> to, value |-> v]

\* one turn of the loop of compute_netted_flow: the sender's entry is
\* lowered (or created as -amount), then the receiver's is raised (or
\* created as amount); overflow records whether any of the signed
\* operations left the range of I256
NetAfterStep(acc, t) ==
    LET amount   == FromRaw(t.value)
        lowered  == IF t.from \in DOMAIN acc.net
                    THEN acc.net[t.from] - amount
                    ELSE 0 - amount
        net1     == MapPut(acc.net, t.from, WrapI256(lowered))
        raised   == IF t.to \in DOMAIN net1 THEN net1[t.to] + amount ELSE amount
        net2     == MapPut(net1, t.to, WrapI256(raised))
    IN  [net |-> net2,
         overflow |-> acc.overflow \/ I256Overflows(lowered) \/ I256Overflows(raised)]

RECURSIVE NetFrom(_, _, _)
NetFrom(steps, i, acc) ==
    IF i > Len(steps)
    THEN acc
    ELSE NetFrom(steps, i + 1, NetAfterStep(acc, steps[i]))

\* the map compute_netted_flow builds, and whether a signed operation
\* overflowed on the way
NettedFlow(steps) ==
    NetFrom(steps, 1, [net |-> EmptyMap, overflow |-> FALSE])

\* compute_netted_flow(path), its possible outcomes: I256 arithmetic
\* asserts against overflow in a debug build and wraps in a release build
compute_netted_flow(steps) ==
    LET r == NettedFlow(steps)
    IN  IF r.overflow
        THEN {[kind |-> "panic"], [kind |-> "ok", net |-> r.net]}
        ELSE {[kind |-> "ok", net |-> r.net]}

Senders(steps) == {steps[i].from : i \in DOMAIN steps}
Receivers(steps) == {steps[i].to : i \in DOMAIN steps}

\* among.iter().find(|a| !excluded.contains(a)).copied().or(fallback):
\* a HashSet is iterated in no particular order, so any member that is
\* not excluded may be the one found
FindOr(among, excluded, fallback) ==
    IF among \ excluded # {}
    THEN {Some(a) : a \in among \ excluded}
    ELSE {fallback}

\* get_source_and_sink(path, override_source, override_sink): the pairs
\* it may return; None in a pair makes it the error
get_source_and_sink(steps, override_source, override_sink) ==
    {<<s, t>> :
        s \in FindOr(Senders(steps), Receivers(steps), override_source),
        t \in FindOr(Receivers(steps), Senders(steps), override_sink)}

\* the loop of assert_no_netted_flow_mismatch over the entries of net
NettingHolds(net, source, sink) ==
    IF source = sink
    THEN \A addr \in DOMAIN net : net[addr] = 0
    ELSE \A addr \in DOMAIN net :
            /\ ~(addr = source /\ net[addr] >= 0)
            /\ ~(addr = sink /\ net[addr] <= 0)
            /\ ~(addr # source /\ addr # sink /\ net[addr] # 0)

\* assert_no_netted_flow_mismatch(path, override_source, override_sink):
\* every outcome it may have, with the net map and the endpoints it used
assert_no_netted_flow_mismatch(steps, override_source, override_sink) ==
    UNION {
        IF n.kind = "panic"
        THEN {[kind |-> "panic", net |-> EmptyMap, ends |-> None]}
        ELSE {IF e[1] = None \/ e[2] = None
              THEN [kind |-> "err", net |-> n.net, ends |-> None]
              ELSE [kind |-> IF NettingHolds(n.net, e[1][1], e[2][1])
                             THEN "ok" ELSE "err",
                    net |-> n.net,
                    ends |-> Some(<<e[1][1], e[2][1]>>)] :
              e \in get_source_and_sink(steps, override_source, override_sink)} :
        n \in compute_netted_flow(steps)}


\* ------------------------------------------------------- paged_query.rs
\* a row is known by the position its cursor gives it
Rows == 1 .. MaxLen

\* what circles_query may answer to a request of at most limit rows: an
\* error, or rows in the order of their cursors
RowsUpTo(limit) ==
    {SortAddresses(S) : S \in {T \in SUBSET Rows : Cardinality(T) <= limit}}

\* QueryMethods::paged_query: the rows, the cursor of the last of them,
\* and has_more = (size == limit)
PagedResult(rows, limit) ==
    [kind |-> "ok",
     results |-> rows,
     last_cursor |-> IF rows = <<>> THEN None ELSE Some(rows[Len(rows)]),
     has_more |-> Len(rows) = limit]

FetchError == [kind |-> "err"]

PagedFetch(limit) ==
    {FetchError} \cup {PagedResult(rows, limit) : rows \in RowsUpTo(limit)}

\* PagedQuery::next_page on the answer of the fetcher: the error, no
\* page when there are no rows, else the page and the advanced cursor
next_page(cursor, result) ==
    IF result.kind = "err"
    THEN [kind |-> "err", cursor |-> cursor]
    ELSE IF result.results = <<>>
    THEN [kind |-> "none", cursor |-> cursor]
    ELSE [kind |-> "page",
          cursor |-> result.last_cursor,
          items |-> result.results,
          has_more |-> result.has_more]

Yielded(row) == [kind |-> "ok", row |-> row]

YieldedError == [kind |-> "err"]

\* the closure of stream::unfold in into_stream: what it hands to
\* flat_map, and whether the stream goes on; items |-> the rows of the
\* page when it has more, the error as an item when the fetch failed
unfold_step(page) ==
    IF page.kind = "page"
    THEN IF page.has_more
         THEN [more |-> TRUE,
               items |-> [i \in DOMAIN page.items |-> Yielded(page.items[i])]]
         ELSE [more |-> FALSE, items |-> <<>>]
    ELSE IF page.kind = "none"
    THEN [more |-> FALSE, items |-> <<>>]
    ELSE [more |-> TRUE, items |-> <<YieldedError>>]

\* ----------------------------------------------------------------- ws.rs
\* max_attempts.unwrap_or(5)
DEFAULT_MAX_ATTEMPTS == 5

AttemptCap(max_attempts) ==
    IF max_attempts = None THEN DEFAULT_MAX_ATTEMPTS ELSE max_attempts[1]

\* the width of the 1u64 that is shifted
U64_BITS == 64

\* (1u64 << shift).saturating_mul(1000).min(10_000) for a shift below
\* U64_BITS; from 2^4 on the product is above 10_000 already
BackoffMs(shift) ==
    IF shift >= 4 THEN 10000
    ELSE IF (2 ^ shift) * 1000 < 10000 THEN (2 ^ shift) * 1000 ELSE 10000

\* the delay after failed attempt number attempt, its possible outcomes:
\* a shift by U64_BITS or more is an arithmetic overflow, which panics in
\* a debug build and shifts by attempt mod U64_BITS in a release build
delay_ms(attempt) ==
    IF attempt >= U64_BITS
    THEN {[kind |-> "panic"], [kind |-> "ok", ms |-> BackoffMs(attempt % U64_BITS)]}
    ELSE {[kind |-> "ok", ms |-> BackoffMs(attempt)]}

WsSubscribeFailed(attempts) == [kind |-> "WsSubscribeFailed", attempts |-> attempts]

\* rpc.events().circles_events(address, from_block, None, filter): the
\* events of the blocks from from_block up to the head of the chain; the
\* node emits one event per block
circles_events(from_block, head) ==
    SortAddresses({b \in 1 .. head : b >= from_block})

\* ------------------------------------------------------------- variables
\* the flow-matrix translator
VARIABLES sender, receiver, value, transfers, fm_pc, vertices, matrix

\* the transfer builder: its inputs, the handler's locals and its result
VARIABLES path, token_info_map, balance_map, opts, wrapped_totals,
          asm, build, build_pc

flow_vars == <<sender, receiver, value, transfers, fm_pc, vertices, matrix>>

build_vars == <<path, token_info_map, balance_map, opts, wrapped_totals,
                asm, build, build_pc>>

\* construct_advanced_transfer: the request, the requests issued to the
\* external services so far, the answers of the lift contract, and the
\* position in the function
VARIABLES req, calls, lift, ct_pc

\* the parameters of the path request, once it has been sent
VARIABLES params

construct_vars == <<req, calls, lift, ct_pc, params>>

\* the converter: a timestamp, an amount, and the results of the calls
VARIABLES cv_ts, cv_x, cv_day, cv_static, cv_dem, cv_back, cv_pc

converter_vars == <<cv_ts, cv_x, cv_day, cv_static, cv_dem, cv_back, cv_pc>>

\* assert_no_netted_flow_mismatch: its arguments, the net map and the
\* endpoints it worked with, and its result
VARIABLES nf_path, nf_source, nf_sink, nf_net, nf_ends, nf_result, nf_pc

netted_vars == <<nf_path, nf_source, nf_sink, nf_net, nf_ends, nf_result, nf_pc>>

\* PagedQuery::into_stream: the limit of the query, the cursor of the
\* paginator, the answers of the fetcher so far, the items flat_map still
\* holds of the current page, what the stream has yielded, its position
VARIABLES pq_limit, pq_cursor, pq_fetched, pq_buffer, pq_out, pq_pc

paged_vars == <<pq_limit, pq_cursor, pq_fetched, pq_buffer, pq_out, pq_pc>>

\* subscribe_with_retries and subscribe_with_catchup: the function
\* called, max_attempts, catch_up_from_block, the attempt counter, the
\* delay being slept, the head of the chain, the catch-up list, whether
\* the subscription stands, what it has delivered, the result, the position
VARIABLES ws_call, ws_max, ws_from, ws_attempt, ws_delay, ws_head,
          ws_catchup, ws_subscribed, ws_live, ws_result, ws_pc

ws_vars == <<ws_call, ws_max, ws_from, ws_attempt, ws_delay, ws_head,
             ws_catchup, ws_subscribed, ws_live, ws_result, ws_pc>>

\* the functions of the other crates
library_vars == <<netted_vars, paged_vars, ws_vars>>

core_vars == <<flow_vars, build_vars, construct_vars, converter_vars>>

vars == <<core_vars, library_vars>>

NettedIdle ==
    /\ nf_path = <<>>
    /\ nf_source = None
    /\ nf_sink = None
    /\ nf_net = EmptyMap
    /\ nf_ends = None
    /\ nf_result = NoResult
    /\ nf_pc = "idle"

PagedIdle ==
    /\ pq_limit = 0
    /\ pq_cursor = None
    /\ pq_fetched = <<>>
    /\ pq_buffer = <<>>
    /\ pq_out = <<>>
    /\ pq_pc = "idle"

WsIdle ==
    /\ ws_call = "none"
    /\ ws_max = None
    /\ ws_from = None
    /\ ws_attempt = 0
    /\ ws_delay = 0
    /\ ws_head = 0
    /\ ws_catchup = <<>>
    /\ ws_subscribed = FALSE
    /\ ws_live = <<>>
    /\ ws_result = NoResult
    /\ ws_pc = "idle"

LibraryIdle ==
    /\ NettedIdle
    /\ PagedIdle
    /\ WsIdle

ConverterIdle ==
    /\ cv_ts = <<>>
    /\ cv_x = <<>>
    /\ cv_day = 0
    /\ cv_static = <<>>
    /\ cv_dem = <<>>
    /\ cv_back = <<>>
    /\ cv_pc = "idle"

ConstructIdle ==
    /\ req = NoResult
    /\ calls = <<>>
    /\ lift = NoResult
    /\ ct_pc = "idle"
    /\ params = NoResult

FlowIdle ==
    /\ sender = 0
    /\ receiver = 0
    /\ value = 0
    /\ transfers = <<>>
    /\ fm_pc = "idle"
    /\ vertices = NoResult
    /\ matrix = NoResult

BuildIdle ==
    /\ path = NoResult
    /\ token_info_map = EmptyMap
    /\ balance_map = EmptyMap
    /\ opts = NoResult
    /\ wrapped_totals = EmptyMap
    /\ asm = NoResult
    /\ build = NoResult
    /\ build_pc = "idle"

\* ------------------------------------- flow-matrix translator as a machine
Init ==
    /\ sender \in Address
    /\ receiver \in Address \ {0}
    /\ transfers \in SeqsUpTo(TransferStep, MaxLen)
    /\ value = 0
    /\ fm_pc = "ready"
    /\ vertices = NoResult
    /\ matrix = NoResult
    /\ BuildIdle
    /\ ConstructIdle
    /\ ConverterIdle
    /\ LibraryIdle

\* transform_to_flow_vertices(transfers, sender, receiver)
CallTransformToFlowVertices ==
    /\ fm_pc = "ready"
    /\ vertices' = [kind |-> "ok"] @@ TransformToFlowVertices(transfers, sender, receiver)
    /\ fm_pc' = "vertices"
    /\ UNCHANGED <<sender, receiver, value, transfers, matrix>>
    /\ UNCHANGED build_vars
    /\ UNCHANGED construct_vars
    /\ UNCHANGED converter_vars
    /\ UNCHANGED library_vars

\* create_flow_matrix(sender, receiver, v, transfers)
CallCreateFlowMatrix ==
    /\ fm_pc = "vertices"
    /\ \E v \in ExpectedValues :
          /\ value' = v
          /\ matrix' = CreateFlowMatrix(sender, receiver, v, transfers)
    /\ fm_pc' = "done"
    /\ UNCHANGED <<sender, receiver, transfers, vertices>>
    /\ UNCHANGED build_vars
    /\ UNCHANGED construct_vars
    /\ UNCHANGED converter_vars
    /\ UNCHANGED library_vars

Next ==
    \/ CallTransformToFlowVertices
    \/ CallCreateFlowMatrix

Spec == Init /\ [][Next]_vars

\* ---------------------------------------- transfer builder as a machine
\* a pathfinder response and the token infos resolved for it
InitBuild ==
    /\ path \in PathfindingResult
    /\ token_info_map \in TokenInfoMaps
    /\ balance_map = EmptyMap
    /\ opts = NoResult
    /\ wrapped_totals = EmptyMap
    /\ asm = NoResult
    /\ build = NoResult
    /\ build_pc = "ready"
    /\ FlowIdle
    /\ ConstructIdle
    /\ ConverterIdle
    /\ LibraryIdle

\* wrapped_totals_from_path(&path, &token_info_map)
CallWrappedTotalsFromPath ==
    /\ build_pc = "ready"
    /\ wrapped_totals' = WrappedTotalsFromPath(path, token_info_map)
    /\ build_pc' = "totals"
    /\ UNCHANGED <<path, token_info_map, balance_map, opts, asm, build>>
    /\ UNCHANGED flow_vars
    /\ UNCHANGED construct_vars
    /\ UNCHANGED converter_vars
    /\ UNCHANGED library_vars

\* assemble_transactions_inner(AVATAR_FROM, AVATAR_TO, path, token_info_map,
\*                             wrapped_totals, balances, options, check_approval)
CallAssembleTransactions ==
    /\ build_pc = "totals"
    /\ \E balances \in BalanceMaps, o \in BuildOptions,
          order \in HashOrders(DOMAIN wrapped_totals \cap DOMAIN token_info_map),
          now \in ClockReadsFor(wrapped_totals, token_info_map) :
          /\ balance_map' = balances
          /\ opts' = o
          /\ LET r == AssembleTransactionsInner(AVATAR_FROM, AVATAR_TO, path,
                          token_info_map, wrapped_totals, balances, o,
                          order, now[1], now[2])
             IN  /\ asm' = r.locals
                 /\ build' = r.ret
    /\ build_pc' = "done"
    /\ UNCHANGED <<path, token_info_map, wrapped_totals>>
    /\ UNCHANGED flow_vars
    /\ UNCHANGED construct_vars
    /\ UNCHANGED converter_vars
    /\ UNCHANGED library_vars

NextBuild ==
    \/ CallWrappedTotalsFromPath
    \/ CallAssembleTransactions

SpecBuild == InitBuild /\ [][NextBuild]_vars

\* ------------------------------- construct_advanced_transfer as a machine
InitConstruct ==
    /\ req \in TransferRequests
    /\ calls = <<>>
    /\ lift = NoResult
    /\ ct_pc = "start"
    /\ params = NoResult
    /\ path = NoResult
    /\ token_info_map = EmptyMap
    /\ balance_map = EmptyMap
    /\ opts = NoResult
    /\ wrapped_totals = EmptyMap
    /\ asm = NoResult
    /\ build = NoResult
    /\ build_pc = "idle"
    /\ FlowIdle
    /\ ConverterIdle
    /\ LibraryIdle

\* builder.rs 73-92: the self-transfer fast path
TrySelfUnwrap ==
    /\ ct_pc = "start"
    /\ IF SelfUnwrapRequested(req)
       THEN \E dem \in LiftReplies, inf \in LiftReplies, now \in ClockReadings :
               LET r == SelfUnwrap(req.options[1].from_tokens[1][1],
                                   req.options[1].to_tokens[1][1],
                                   req.amount, dem, inf, now)
               IN  /\ calls' = calls \o r.calls
                   /\ lift' = r.lift
                   /\ IF r.ret.kind = "err"
                      THEN build' = r.ret /\ ct_pc' = "done"
                      ELSE IF r.ret.tx # None
                      THEN /\ build' = [kind |-> "ok", txs |-> <<r.ret.tx[1]>>]
                           /\ ct_pc' = "done"
                      ELSE build' = build /\ ct_pc' = "find_path"
       ELSE /\ ct_pc' = "find_path"
            /\ UNCHANGED <<calls, lift, build>>
    /\ UNCHANGED <<req, params, path, token_info_map, balance_map, opts, wrapped_totals,
                   asm, build_pc>>
    /\ UNCHANGED flow_vars
    /\ UNCHANGED converter_vars
    /\ UNCHANGED library_vars

\* builder.rs 94-140: the path request and the checks on its answer
FindPath ==
    /\ ct_pc = "find_path"
    /\ calls' = Append(calls, "findPath")
    /\ \E reply \in PathfinderReplies :
          LET target_flow == TruncateToSixDecimals(req.amount)
          IN  IF reply = None
              THEN /\ build' = [kind |-> "err", error |-> "Generic",
                                category |-> "Pathfinding"]
                   /\ ct_pc' = "done"
                   /\ path' = path
              ELSE /\ path' = reply[1]
                   /\ IF reply[1].transfers = <<>>
                      THEN /\ build' = [kind |-> "err", error |-> "NoPathFound",
                                        from |-> req.from, to |-> req.to]
                           /\ ct_pc' = "done"
                      ELSE IF reply[1].max_flow < target_flow
                      THEN /\ build' = [kind |-> "err", error |-> "InsufficientBalance",
                                        requested |-> target_flow,
                                        available |-> reply[1].max_flow,
                                        from |-> req.from, to |-> req.to]
                           /\ ct_pc' = "done"
                      ELSE build' = build /\ ct_pc' = "token_info"
    /\ params' = FindPathParams(req.from, req.to, TruncateToSixDecimals(req.amount),
                                OptionsOrDefault(req.options))
    /\ UNCHANGED <<req, lift, token_info_map, balance_map, opts, wrapped_totals, asm, build_pc>>
    /\ UNCHANGED flow_vars
    /\ UNCHANGED converter_vars
    /\ UNCHANGED library_vars

\* builder.rs 142-157: token infos, wrapped totals and the wrapped-token policy
ResolveTokenInfo ==
    /\ ct_pc = "token_info"
    /\ \E reply \in {None} \cup {Some(w) : w \in ResolverWorlds} :
          LET r == TokenInfoMapFromPath(req.from, path, reply)
          IN  /\ calls' = calls \o r.calls
              /\ IF r.ret = None
                 THEN /\ build' = [kind |-> "err", error |-> "Generic",
                                   category |-> "Pathfinding"]
                      /\ ct_pc' = "done"
                      /\ UNCHANGED <<token_info_map, wrapped_totals>>
                 ELSE /\ token_info_map' = r.ret[1]
                      /\ wrapped_totals' = WrappedTotalsFromPath(path, r.ret[1])
                      /\ IF /\ HasWrapped(WrappedTotalsFromPath(path, r.ret[1]))
                            /\ UseWrappedBalances(OptionsOrDefault(req.options)) = FALSE
                         THEN /\ build' = [kind |-> "err",
                                           error |-> "WrappedTokensRequired"]
                              /\ ct_pc' = "done"
                         ELSE build' = build /\ ct_pc' = "balances"
    /\ UNCHANGED <<req, lift, params, path, balance_map, opts, asm, build_pc>>
    /\ UNCHANGED flow_vars
    /\ UNCHANGED converter_vars
    /\ UNCHANGED library_vars

\* builder.rs 159-164 and fetch_static_balances
FetchStaticBalances ==
    /\ ct_pc = "balances"
    /\ IF HasWrapped(wrapped_totals)
       THEN /\ calls' = Append(calls, "getTokenBalances")
            /\ \E reply \in {None} \cup {Some(b) : b \in BalanceMaps} :
                  IF reply = None
                  THEN /\ build' = [kind |-> "err", error |-> "Generic",
                                    category |-> "Transfers"]
                       /\ ct_pc' = "done"
                       /\ balance_map' = balance_map
                  ELSE /\ balance_map' = reply[1]
                       /\ build' = build
                       /\ ct_pc' = "assemble"
       ELSE /\ balance_map' = EmptyMap
            /\ ct_pc' = "assemble"
            /\ UNCHANGED <<calls, build>>
    /\ UNCHANGED <<req, lift, params, path, token_info_map, opts, wrapped_totals, asm, build_pc>>
    /\ UNCHANGED flow_vars
    /\ UNCHANGED converter_vars
    /\ UNCHANGED library_vars

\* builder.rs 166-175: assemble_transactions_inner(.., opts, true)
Assemble ==
    /\ ct_pc = "assemble"
    /\ \E b \in BuildOptions,
          order \in HashOrders(DOMAIN wrapped_totals \cap DOMAIN token_info_map),
          now \in ClockReadsFor(wrapped_totals, token_info_map) :
          /\ b.check_approval
          /\ b.builder_check_approval = req.builder_check_approval
          /\ LET o == [b EXCEPT !.tx_data = OptionsOrDefault(req.options).tx_data]
                 r == AssembleTransactionsInner(req.from, req.to, path,
                          token_info_map, wrapped_totals, balance_map, o,
                          order, now[1], now[2])
             IN  /\ opts' = o
                 /\ asm' = r.locals
                 /\ build' = r.ret
                 /\ calls' = calls \o r.locals.calls
    /\ ct_pc' = "done"
    /\ UNCHANGED <<req, lift, params, path, token_info_map, balance_map, wrapped_totals, build_pc>>
    /\ UNCHANGED flow_vars
    /\ UNCHANGED converter_vars
    /\ UNCHANGED library_vars

NextConstruct ==
    \/ TrySelfUnwrap
    \/ FindPath
    \/ ResolveTokenInfo
    \/ FetchStaticBalances
    \/ Assemble

SpecConstruct == InitConstruct /\ [][NextConstruct]_vars

\* ---------------------------------- create_flow_matrix on many addresses
\* steps over pairwise different addresses, none of them sender or receiver
ChainStep(k) ==
    [from_address |-> 3 * k, to_address |-> 3 * k + 1, token_owner |-> 3 * k + 2,
     value |-> 1]

\* enough steps for more than U16_MOD vertices
ChainLen == (U16_MOD \div 3) + 1

ChainRuns ==
    {[i \in 1 .. (hi - lo + 1) |-> ChainStep(lo + i - 1)] :
        lo \in 1 .. ChainLen, hi \in 1 .. ChainLen} \ {<<>>}

InitCapacity ==
    /\ sender \in {0, 2}
    /\ receiver = 1
    /\ transfers \in ChainRuns
    /\ value = 0
    /\ fm_pc = "ready"
    /\ vertices = NoResult
    /\ matrix = NoResult
    /\ BuildIdle
    /\ ConstructIdle
    /\ ConverterIdle
    /\ LibraryIdle

SpecCapacity == InitCapacity /\ [][Next]_vars

\* ------------------------------------------------ the converter's functions
\* INFLATION_DAY_ZERO_UNIX + days * SECONDS_PER_DAY + secs
EpochPlus(days, secs) ==
    BigAdd(BigFromInt(INFLATION_DAY_ZERO_UNIX + secs),
           BigMul(BigFromInt(days), BigFromInt(SECONDS_PER_DAY)))

\* around the epoch, a deployment time, and 50 and 100 years later
ConverterTimestamps ==
    {BigFromInt(t) :
        t \in {0,
               INFLATION_DAY_ZERO_UNIX - 2 * SECONDS_PER_DAY,
               INFLATION_DAY_ZERO_UNIX - SECONDS_PER_DAY - 1,
               INFLATION_DAY_ZERO_UNIX - SECONDS_PER_DAY,
               INFLATION_DAY_ZERO_UNIX - SECONDS_PER_DAY + 1,
               INFLATION_DAY_ZERO_UNIX - 1,
               INFLATION_DAY_ZERO_UNIX,
               INFLATION_DAY_ZERO_UNIX + 1,
               INFLATION_DAY_ZERO_UNIX + SECONDS_PER_DAY - 1,
               INFLATION_DAY_ZERO_UNIX + SECONDS_PER_DAY,
               DeployTimestamp}}
    \cup {EpochPlus(18262, 5), EpochPlus(36525, 0)}

\* LIMB^k
LimbPow(k) == [i \in 1 .. (k + 1) |-> IF i = k + 1 THEN 1 ELSE 0]

\* 0, 1, 999, 1e18, an amount without pattern, 1e24 - 1, 1e24 and U256::MAX
ConverterAmounts ==
    {<<>>, <<1>>, <<999>>, LimbPow(6),
     <<234, 901, 678, 345, 12, 789, 456, 123>>,
     BigSub(LimbPow(8), <<1>>), LimbPow(8), BigSub(TWO_256, <<1>>)}

InitConverter ==
    /\ cv_ts \in ConverterTimestamps
    /\ cv_x \in ConverterAmounts
    /\ cv_day = 0
    /\ cv_static = <<>>
    /\ cv_dem = <<>>
    /\ cv_back = <<>>
    /\ cv_pc = "ready"
    /\ FlowIdle
    /\ BuildIdle
    /\ ConstructIdle
    /\ LibraryIdle

\* day_from_timestamp(cv_ts)
CallDayFromTimestamp ==
    /\ cv_pc = "ready"
    /\ cv_day' = day_from_timestamp(cv_ts)
    /\ cv_pc' = "day"
    /\ UNCHANGED <<cv_ts, cv_x, cv_static, cv_dem, cv_back>>
    /\ UNCHANGED <<flow_vars, build_vars, construct_vars>>
    /\ UNCHANGED library_vars

\* atto_circles_to_atto_static_circles(cv_x, Some(cv_ts))
CallAttoCirclesToAttoStaticCircles ==
    /\ cv_pc = "day"
    /\ cv_static' = atto_circles_to_atto_static_circles(cv_x, Some(cv_ts), cv_ts)
    /\ cv_pc' = "static"
    /\ UNCHANGED <<cv_ts, cv_x, cv_day, cv_dem, cv_back>>
    /\ UNCHANGED <<flow_vars, build_vars, construct_vars>>
    /\ UNCHANGED library_vars

\* atto_static_circles_to_atto_circles(cv_x, Some(cv_ts))
CallAttoStaticCirclesToAttoCircles ==
    /\ cv_pc = "static"
    /\ cv_dem' = atto_static_circles_to_atto_circles(cv_x, Some(cv_ts), cv_ts)
    /\ cv_pc' = "demurraged"
    /\ UNCHANGED <<cv_ts, cv_x, cv_day, cv_static, cv_back>>
    /\ UNCHANGED <<flow_vars, build_vars, construct_vars>>
    /\ UNCHANGED library_vars

\* atto_static_circles_to_atto_circles applied to the static amount
\* obtained before, at the same timestamp
CallConvertBack ==
    /\ cv_pc = "demurraged"
    /\ cv_back' = atto_static_circles_to_atto_circles(cv_static, Some(cv_ts), cv_ts)
    /\ cv_pc' = "done"
    /\ UNCHANGED <<cv_ts, cv_x, cv_day, cv_static, cv_dem>>
    /\ UNCHANGED <<flow_vars, build_vars, construct_vars>>
    /\ UNCHANGED library_vars

NextConverter ==
    \/ CallDayFromTimestamp
    \/ CallAttoCirclesToAttoStaticCircles
    \/ CallAttoStaticCirclesToAttoCircles
    \/ CallConvertBack

SpecConverter == InitConverter /\ [][NextConverter]_vars

\* ------------------------------------------- the netting check as a machine
CoreIdle ==
    /\ FlowIdle
    /\ BuildIdle
    /\ ConstructIdle
    /\ ConverterIdle

\* three addresses; values that are zero, small, or have the top bit set
NettedAddresses == {AVATAR_TO, WRAPPER_B, AVATAR_FROM}

NettedValues == {0, 1, U256_MOD \div 2}

NettedSteps ==
    {NettedStep(f, t, v) : f \in NettedAddresses, t \in NettedAddresses,
                           v \in NettedValues}

NettedOverrides == {None, Some(AVATAR_FROM), Some(AVATAR_TO)}

InitNetted ==
    /\ nf_path \in SeqsUpTo(NettedSteps, MaxLen)
    /\ nf_source \in NettedOverrides
    /\ nf_sink \in NettedOverrides
    /\ nf_net = EmptyMap
    /\ nf_ends = None
    /\ nf_result = NoResult
    /\ nf_pc = "ready"
    /\ CoreIdle
    /\ PagedIdle
    /\ WsIdle

\* compute_netted_flow(nf_path)
CallComputeNettedFlow ==
    /\ nf_pc = "ready"
    /\ \E n \in compute_netted_flow(nf_path) :
          /\ nf_net' = IF n.kind = "ok" THEN n.net ELSE EmptyMap
          /\ nf_result' = [kind |-> n.kind]
    /\ nf_pc' = "netted"
    /\ UNCHANGED <<nf_path, nf_source, nf_sink, nf_ends>>
    /\ UNCHANGED <<core_vars, paged_vars, ws_vars>>

\* assert_no_netted_flow_mismatch(nf_path, nf_source, nf_sink)
CallAssertNoNettedFlowMismatch ==
    /\ nf_pc = "ready"
    /\ \E r \in assert_no_netted_flow_mismatch(nf_path, nf_source, nf_sink) :
          /\ nf_net' = r.net
          /\ nf_ends' = r.ends
          /\ nf_result' = [kind |-> r.kind]
    /\ nf_pc' = "done"
    /\ UNCHANGED <<nf_path, nf_source, nf_sink>>
    /\ UNCHANGED <<core_vars, paged_vars, ws_vars>>

NextNetted ==
    \/ CallComputeNettedFlow
    \/ CallAssertNoNettedFlowMismatch

SpecNetted == InitNetted /\ [][NextNetted]_vars

\* ------------------------------------------ PagedQuery::into_stream polled
InitPaged ==
    /\ pq_limit \in 1 .. MaxLen
    /\ pq_cursor = None
    /\ pq_fetched = <<>>
    /\ pq_buffer = <<>>
    /\ pq_out = <<>>
    /\ pq_pc = "streaming"
    /\ CoreIdle
    /\ NettedIdle
    /\ WsIdle

\* the stream is polled while flat_map holds nothing: the closure of
\* unfold runs next_page, which asks the fetcher
PollNextPage ==
    /\ pq_pc = "streaming"
    /\ pq_buffer = <<>>
    /\ Len(pq_fetched) <= MaxLen
    /\ \E result \in PagedFetch(pq_limit) :
          LET page == next_page(pq_cursor, result)
              step == unfold_step(page)
          IN  /\ pq_fetched' = Append(pq_fetched, result)
              /\ pq_cursor' = page.cursor
              /\ pq_buffer' = step.items
              /\ pq_pc' = IF step.more THEN "streaming" ELSE "ended"
    /\ UNCHANGED <<pq_limit, pq_out>>
    /\ UNCHANGED <<core_vars, netted_vars, ws_vars>>

\* the stream is polled while flat_map holds items of a page: the next
\* of them is yielded
YieldItem ==
    /\ pq_pc = "streaming"
    /\ pq_buffer # <<>>
    /\ pq_out' = Append(pq_out, Head(pq_buffer))
    /\ pq_buffer' = Tail(pq_buffer)
    /\ UNCHANGED <<pq_limit, pq_cursor, pq_fetched, pq_pc>>
    /\ UNCHANGED <<core_vars, netted_vars, ws_vars>>

NextPaged ==
    \/ PollNextPage
    \/ YieldItem

SpecPaged == InitPaged /\ [][NextPaged]_vars

\* ------------------------------------- the WebSocket helpers as a machine
\* max_attempts: absent, zero, small, and beyond the width of the shift
WsMaxAttempts == {None, Some(0), Some(1), Some(2), Some(U64_BITS + 2)}

WsFromBlocks == {None, Some(1), Some(2)}

InitWs ==
    /\ ws_call \in {"subscribe_with_retries", "subscribe_with_catchup"}
    /\ ws_max \in WsMaxAttempts
    /\ ws_from \in IF ws_call = "subscribe_with_catchup" THEN WsFromBlocks ELSE {None}
    /\ ws_attempt = 0
    /\ ws_delay = 0
    /\ ws_head \in 0 .. 1
    /\ ws_catchup = <<>>
    /\ ws_subscribed = FALSE
    /\ ws_live = <<>>
    /\ ws_result = NoResult
    /\ ws_pc = IF ws_call = "subscribe_with_catchup" THEN "catchup" ELSE "connect"
    /\ CoreIdle
    /\ NettedIdle
    /\ PagedIdle

\* the node emits the event of the next block; a standing subscription
\* receives it
EmitEvent ==
    /\ ws_pc \notin {"idle", "failed", "panicked"}
    /\ ws_head <= MaxLen
    /\ ws_head' = ws_head + 1
    /\ ws_live' = IF ws_subscribed THEN Append(ws_live, ws_head + 1) ELSE ws_live
    /\ UNCHANGED <<ws_call, ws_max, ws_from, ws_attempt, ws_delay, ws_catchup,
                   ws_subscribed, ws_result, ws_pc>>
    /\ UNCHANGED <<core_vars, netted_vars, paged_vars>>

\* subscribe_with_catchup up to the call of subscribe_with_retries: the
\* events are fetched over HTTP when a block is given; a failed fetch is
\* returned
FetchCatchUp ==
    /\ ws_pc = "catchup"
    /\ \/ /\ ws_from = None
          /\ ws_catchup' = <<>>
          /\ ws_pc' = "connect"
          /\ UNCHANGED ws_result
       \/ /\ ws_from # None
          /\ ws_catchup' = circles_events(ws_from[1], ws_head)
          /\ ws_pc' = "connect"
          /\ UNCHANGED ws_result
       \/ /\ ws_from # None
          /\ ws_result' = [kind |-> "Rpc"]
          /\ ws_pc' = "failed"
          /\ UNCHANGED ws_catchup
    /\ UNCHANGED <<ws_call, ws_max, ws_from, ws_attempt, ws_delay, ws_head,
                   ws_subscribed, ws_live>>
    /\ UNCHANGED <<core_vars, netted_vars, paged_vars>>

\* the arms of a failed connect or subscribe in attempt number attempt:
\* below the cap the delay is computed and slept, else the error is returned
FailedAttempt(attempt) ==
    IF attempt < AttemptCap(ws_max)
    THEN \E d \in delay_ms(attempt) :
            IF d.kind = "panic"
            THEN /\ ws_pc' = "panicked"
                 /\ ws_result' = [kind |-> "panic"]
                 /\ UNCHANGED ws_delay
            ELSE /\ ws_pc' = "sleep"
                 /\ ws_delay' = d.ms
                 /\ UNCHANGED ws_result
    ELSE /\ ws_pc' = "failed"
         /\ ws_result' = WsSubscribeFailed(attempt)
         /\ UNCHANGED ws_delay

\* the top of the loop: attempt += 1, then CirclesRpc::try_from_ws
TryFromWs ==
    /\ ws_pc = "connect"
    /\ ws_attempt' = ws_attempt + 1
    /\ \/ /\ ws_pc' = "subscribe"
          /\ UNCHANGED <<ws_delay, ws_result>>
       \/ FailedAttempt(ws_attempt + 1)
    /\ UNCHANGED <<ws_call, ws_max, ws_from, ws_head, ws_catchup,
                   ws_subscribed, ws_live>>
    /\ UNCHANGED <<core_vars, netted_vars, paged_vars>>

\* ws.events().subscribe_parsed_events(filter) on the connection
SubscribeParsedEvents ==
    /\ ws_pc = "subscribe"
    /\ \/ /\ ws_pc' = "returned"
          /\ ws_subscribed' = TRUE
          /\ ws_result' = [kind |-> "ok"]
          /\ UNCHANGED ws_delay
       \/ /\ FailedAttempt(ws_attempt)
          /\ UNCHANGED ws_subscribed
    /\ UNCHANGED <<ws_call, ws_max, ws_from, ws_attempt, ws_head, ws_catchup,
                   ws_live>>
    /\ UNCHANGED <<core_vars, netted_vars, paged_vars>>

\* sleep(delay_ms) is over: back to the top of the loop
Sleep ==
    /\ ws_pc = "sleep"
    /\ ws_pc' = "connect"
    /\ UNCHANGED <<ws_call, ws_max, ws_from, ws_attempt, ws_delay, ws_head,
                   ws_catchup, ws_subscribed, ws_live, ws_result>>
    /\ UNCHANGED <<core_vars, netted_vars, paged_vars>>

NextWs ==
    \/ EmitEvent
    \/ FetchCatchUp
    \/ TryFromWs
    \/ SubscribeParsedEvents
    \/ Sleep

SpecWs == InitWs /\ [][NextWs]_vars

\* ===================================================== flow-matrix claims
TerminalOf(edges) == {i \in DOMAIN edges : edges[i].stream_sink_id = 1}

RECURSIVE SumOver(_, _)
SumOver(edges, I) ==
    IF I = {} THEN 0
    ELSE LET i == CHOOSE j \in I : TRUE
         IN  edges[i].amount + SumOver(edges, I \ {i})

\* the steps that end at the sink, or the final step when there is none
ExpectedTerminal(steps, t) ==
    LET hits == {i \in DOMAIN steps : steps[i].to_address = t}
    IN  IF hits # {} THEN hits ELSE {Len(steps)}

PositionOf(seq, a) == (CHOOSE i \in DOMAIN seq : seq[i] = a) - 1

\* k-th big-endian u16 of a byte string, k counted from 1
U16At(bytes, k) == bytes[2 * k - 1] * BYTE_MOD + bytes[2 * k]

\* C1: whenever create_flow_matrix returns a matrix, the amounts of the edges
\* with stream_sink_id = 1 sum (in the 192-bit arithmetic of the amounts) to
\* the expected value.
C1_TerminalSumIsExpected ==
    matrix.kind = "ok" =>
        SumOver(matrix.flow_edges, TerminalOf(matrix.flow_edges)) % U192_MOD = value

C1_Witness ==
    /\ matrix.kind = "ok"
    /\ Len(matrix.flow_edges) = 2
    /\ Cardinality(TerminalOf(matrix.flow_edges)) = 1
    /\ \A i \in DOMAIN matrix.flow_edges : matrix.flow_edges[i].amount > 0
    /\ value > 0

\* C3: a returned matrix has one edge per step, in path order, carrying the
\* step's value; the edges with stream_sink_id = 1 are exactly the steps that
\* end at the sink, or exactly the final edge when no step ends there; every
\* other edge has stream_sink_id = 0.
C3_EdgesFollowPath ==
    matrix.kind = "ok" =>
        /\ Len(matrix.flow_edges) = Len(transfers)
        /\ \A i \in DOMAIN transfers :
              /\ matrix.flow_edges[i].amount = transfers[i].value
              /\ matrix.flow_edges[i].stream_sink_id =
                    IF i \in ExpectedTerminal(transfers, receiver) THEN 1 ELSE 0

C3_Witness ==
    /\ matrix.kind = "ok"
    /\ Len(transfers) >= 2
    /\ \A i \in DOMAIN transfers : transfers[i].to_address # receiver
    /\ transfers[1].value # transfers[Len(transfers)].value

\* C4: for a non-empty path create_flow_matrix returns a matrix exactly when
\* the terminal sum S (after promotion, 192-bit arithmetic) equals the
\* expected value, and otherwise the error Imbalanced{S, expected}; zero
\* values, self-loops and source = sink cause no other failure.
C4_MatrixIffBalanced ==
    (fm_pc = "done" /\ transfers # <<>>) =>
        LET S == SumOver([i \in DOMAIN transfers |-> [amount |-> transfers[i].value]],
                         ExpectedTerminal(transfers, receiver)) % U192_MOD
        IN  /\ matrix.kind \in {"ok", "err"}
            /\ (matrix.kind = "ok") <=> (S = value)
            /\ (S # value) =>
                  matrix = [kind |-> "err", error |-> "Imbalanced",
                            terminal_sum |-> S, expected |-> value]

C4_Witness ==
    /\ matrix.kind = "err"
    /\ sender = receiver
    /\ \E i \in DOMAIN transfers :
          transfers[i].from_address = transfers[i].to_address
    /\ \E i \in DOMAIN transfers : transfers[i].value = 0
    /\ matrix.terminal_sum > 0

Reorderings(steps) ==
    {[i \in DOMAIN steps |-> steps[p[i]]] : p \in Permutations(DOMAIN steps)}

Duplications(steps) ==
    {steps \o steps} \cup {Append(steps, steps[i]) : i \in DOMAIN steps}

\* C6: transform_to_flow_vertices returns a strictly increasing vertex list
\* whose elements are exactly source, sink and every from, to and token_owner
\* of the path, with an index map sending each address to its position; the
\* result does not depend on the order or the multiplicity of the steps.
C6_VerticesSortedAndComplete ==
    fm_pc = "vertices" =>
        LET want == {sender, receiver} \cup
                    {transfers[i].from_address : i \in DOMAIN transfers} \cup
                    {transfers[i].to_address : i \in DOMAIN transfers} \cup
                    {transfers[i].token_owner : i \in DOMAIN transfers}
        IN  /\ \A i, j \in DOMAIN vertices.sorted :
                  i < j => vertices.sorted[i] < vertices.sorted[j]
            /\ {vertices.sorted[i] : i \in DOMAIN vertices.sorted} = want
            /\ DOMAIN vertices.idx = want
            /\ \A a \in want : vertices.sorted[vertices.idx[a] + 1] = a
            /\ \A q \in Reorderings(transfers) \cup Duplications(transfers) :
                  LET r == TransformToFlowVertices(q, sender, receiver)
                  IN  r.sorted = vertices.sorted /\ r.idx = vertices.idx

C6_Witness ==
    /\ vertices.kind = "ok"
    /\ Len(vertices.sorted) = 3
    /\ Len(transfers) >= 2
    /\ transfers[1].from_address > transfers[2].from_address
    /\ sender # receiver

TxsWith(f) == {i \in DOMAIN build.txs : build.txs[i].call.fn = f}

\* addresses the token infos describe as wrappers
WrappersKnown ==
    {w \in DOMAIN token_info_map : IsWrapperType(token_info_map[w].token_type)}

StepsOwnedBy(w) ==
    {i \in DOMAIN path.transfers : AddressFromStr(path.transfers[i].token_owner) = Some(w)}

RECURSIVE SumValues(_, _)
SumValues(steps, I) ==
    IF I = {} THEN 0
    ELSE LET i == CHOOSE j \in I : TRUE
         IN  steps[i].value + SumValues(steps, I \ {i})

UsedAmount(w) == SumValues(path.transfers, StepsOwnedBy(w))

UnwrapsOf(w) == {i \in TxsWith("unwrap") : build.txs[i].to = w}

RewrapsFor(w) ==
    {i \in TxsWith("wrap") : build.txs[i].call.args[1] = token_info_map[w].token_owner}

\* C2: a returned transaction list is [approval?] ++ unwraps ++ [settlement]
\* ++ rewraps: exactly one operateFlowMatrix call, at most one approval and
\* only as first element, every unwrap before the settlement call and every
\* re-wrap after it.
C2_TransactionOrder ==
    build.kind = "ok" =>
        /\ \A i \in DOMAIN build.txs :
              build.txs[i].call.fn \in
                  {"setApprovalForAll", "unwrap", "operateFlowMatrix", "wrap"}
        /\ Cardinality(TxsWith("operateFlowMatrix")) = 1
        /\ TxsWith("setApprovalForAll") \subseteq {1}
        /\ \A u \in TxsWith("unwrap"), m \in TxsWith("operateFlowMatrix") : u < m
        /\ \A r \in TxsWith("wrap"), m \in TxsWith("operateFlowMatrix") : m < r

C2_Witness ==
    /\ build.kind = "ok"
    /\ TxsWith("setApprovalForAll") = {1}
    /\ Cardinality(TxsWith("unwrap")) = 2
    /\ Cardinality(TxsWith("wrap")) = 2
    /\ Len(build.txs) = 6

\* C8: for each wrapper used in the path with used amount U, the build emits
\* an unwrap call to the wrapper with amount exactly U when the wrapper is
\* demurraged and exactly demurraged_to_static(U, timestamp of its token
\* info) when it is inflationary.
C8_UnwrapAmountAsStated ==
    build.kind = "ok" =>
        \A w \in WrappersKnown :
            StepsOwnedBy(w) # {} =>
                LET U == UsedAmount(w)
                    info == token_info_map[w]
                    want == IF info.token_type = DEMURRAGED THEN U
                            ELSE AttoCirclesToAttoStaticCircles(
                                     U, Some(info.timestamp), info.timestamp)
                IN  \E i \in DOMAIN build.txs :
                        build.txs[i] = TransferTx(w, UnwrapCall(want))

\* C9: a re-wrap (HubV2.wrap of inflationary type, sent to the hub) is emitted
\* for a wrapper exactly when the wrapper is inflationary, a static balance B
\* of it is known and B exceeds the static amount A unwrapped for it; the
\* call wraps B - A for the wrapper's underlying avatar.  Demurraged wrappers,
\* missing balances and B <= A produce no re-wrap.
C9_RewrapIffLeftover ==
    build.kind = "ok" =>
        /\ \A w \in WrappersKnown :
              LET info == token_info_map[w]
                  due == /\ info.token_type = INFLATIONARY
                         /\ w \in DOMAIN balance_map
                         /\ \E i \in UnwrapsOf(w) :
                               balance_map[w] > build.txs[i].call.args[1]
              IN  /\ due =>
                        /\ Cardinality(RewrapsFor(w)) = 1
                        /\ \A r \in RewrapsFor(w), i \in UnwrapsOf(w) :
                              build.txs[r] =
                                  [to |-> HUB, value |-> 0,
                                   call |-> [fn |-> "wrap",
                                             args |-> <<info.token_owner,
                                                        balance_map[w] -
                                                            build.txs[i].call.args[1],
                                                        1>>]]
                  /\ ~due => RewrapsFor(w) = {}
        /\ \A r \in TxsWith("wrap") : \E w \in WrappersKnown : r \in RewrapsFor(w)

C9_Witness ==
    /\ build.kind = "ok"
    /\ \E w \in WrappersKnown :
          /\ RewrapsFor(w) # {}
          /\ \E i \in UnwrapsOf(w) : build.txs[i].call.args[1] > 0
    /\ \E w \in WrappersKnown :
          /\ token_info_map[w].token_type = INFLATIONARY
          /\ w \in DOMAIN balance_map
          /\ \E i \in UnwrapsOf(w) : balance_map[w] <= build.txs[i].call.args[1]
          /\ RewrapsFor(w) = {}

\* C10: replace_wrapped_tokens keeps max_flow, the number and order of the
\* steps and the from, to and value of each; a step whose token owner is a
\* known wrapper gets the wrapper's underlying avatar as token owner, any
\* other step keeps its token owner's address; a path without wrapper owners
\* comes back with the same owners and the build has no unwrap and no re-wrap.
C10_ReplaceWrappedTokensAsStated ==
    build_pc = "done" =>
        LET out == asm.path_unwrapped
            Old(i) == AddressFromStr(path.transfers[i].token_owner)
            New(i) == AddressFromStr(out.transfers[i].token_owner)
        IN  /\ out.max_flow = path.max_flow
            /\ Len(out.transfers) = Len(path.transfers)
            /\ \A i \in DOMAIN path.transfers :
                  /\ out.transfers[i].from = path.transfers[i].from
                  /\ out.transfers[i].to = path.transfers[i].to
                  /\ out.transfers[i].value = path.transfers[i].value
                  /\ Old(i) # None =>
                        IF Old(i)[1] \in WrappersKnown
                        THEN New(i) = Some(token_info_map[Old(i)[1]].token_owner)
                        ELSE New(i) = Old(i)
            /\ (\A w \in WrappersKnown : StepsOwnedBy(w) = {}) =>
                  /\ asm.unwraps = <<>>
                  /\ asm.rewraps = <<>>

\* ================================================ construct_advanced_transfer claims
ConstructDone == ct_pc = "done"

FailedWith(e) == ConstructDone /\ build.kind = "err" /\ build.error = e

Requested(service) == \E i \in DOMAIN calls : calls[i] = service

\* the value of the wrapped-balance policy a request asks for: on when no
\* options are given, off when options are given that leave it unset
AllowWrapped ==
    IF req.options = None THEN TRUE
    ELSE IF req.options[1].use_wrapped_balances = None THEN FALSE
    ELSE req.options[1].use_wrapped_balances[1]

\* some step of the fetched path is owned by a token the resolver reported
\* as a wrapper
WrapperObserved ==
    /\ path # NoResult
    /\ \E i \in DOMAIN path.transfers :
          LET a == AddressFromStr(path.transfers[i].token_owner)
          IN  /\ a # None
              /\ a[1] \in DOMAIN token_info_map
              /\ token_info_map[a[1]].token_type \in
                     {WRAPPER_DEPLOYED, DEMURRAGED, INFLATIONARY}

Quantized(amount) == amount - (amount % SIX_DECIMALS_UNIT)

PathFetched == path # NoResult

\* C12: after the path fetch the build fails with NoPathFound{from, to} when
\* the returned transfer list is empty, and otherwise with
\* InsufficientBalance{available = max_flow, requested = target_flow} when
\* max_flow is below the quantized amount; in both cases nothing is returned
\* and neither the token-info nor the balance service is called.
C12_NoPathOrInsufficientFlow ==
    (ConstructDone /\ PathFetched) =>
        /\ FailedWith("NoPathFound") <=> path.transfers = <<>>
        /\ FailedWith("NoPathFound") => build.from = req.from /\ build.to = req.to
        /\ FailedWith("InsufficientBalance") <=>
               (path.transfers # <<>> /\ path.max_flow < Quantized(req.amount))
        /\ FailedWith("InsufficientBalance") =>
               /\ build.available = path.max_flow
               /\ build.requested = Quantized(req.amount)
               /\ build.from = req.from /\ build.to = req.to
        /\ (FailedWith("NoPathFound") \/ FailedWith("InsufficientBalance")) =>
               /\ ~Requested("getTokenInfoBatch")
               /\ ~Requested("getTokenBalances")
               /\ asm = NoResult

C12_Witness ==
    /\ FailedWith("InsufficientBalance")
    /\ req.amount = 7
    /\ build.requested = 6
    /\ build.available = 2
    /\ calls = <<"findPath">>

AssemblyReached == ConstructDone /\ asm # NoResult

Clamp192(x) == IF x > U192_MAX THEN U192_MAX ELSE x

\* steps of the rewritten path that reach the receiver, or its last step when
\* none does
RewrittenTerminals ==
    LET hits == {i \in DOMAIN asm.path_unwrapped.transfers :
                    asm.path_unwrapped.transfers[i].to = req.to}
    IN  IF hits # {} THEN hits ELSE {Len(asm.path_unwrapped.transfers)}

RECURSIVE SumClamped(_, _)
SumClamped(steps, I) ==
    IF I = {} THEN 0
    ELSE LET i == CHOOSE j \in I : TRUE
         IN  Clamp192(steps[i].value) + SumClamped(steps, I \ {i})

RewrittenTerminalSum ==
    SumClamped(asm.path_unwrapped.transfers, RewrittenTerminals) % U192_MOD

\* C13: a path-based build that reaches assembly returns transactions exactly
\* when the terminal edges of the rewritten path sum to the pathfinder's
\* max_flow (as a 192-bit amount) and fails with a flow-matrix error
\* otherwise, whatever the requested target flow is.
C13_ValidatedAgainstMaxFlow ==
    AssemblyReached =>
        /\ build.kind = "ok" <=> RewrittenTerminalSum = Clamp192(path.max_flow)
        /\ build.kind # "ok" =>
               /\ build.kind = "err"
               /\ build.error = "Generic"
               /\ build.category = "FlowMatrix"

\* the terminal edges carry exactly the target flow, yet the build fails
\* because max_flow is larger
C13_Witness ==
    /\ AssemblyReached
    /\ build.kind = "err"
    /\ build.category = "FlowMatrix"
    /\ RewrittenTerminalSum = Quantized(req.amount)
    /\ path.max_flow > Quantized(req.amount)
    /\ path.max_flow <= U192_MAX

\* ======================================================== approval claims
Assembled == opts # NoResult /\ build.kind = "ok"

ApprovalTxs == TxsWith("setApprovalForAll")

\* one approval, first in the list, addressed to the hub
SingleLeadingApproval ==
    /\ ApprovalTxs = {1}
    /\ build.txs[1].to = HUB
    /\ build.txs[1].value = 0

\* C14: with approval checking disabled, by the builder's flag or by the
\* check_approval argument, every successful build has exactly one
\* setApprovalForAll transaction, addressed to the hub and first in the list,
\* and the hub was not asked for the approval status.
C14_ApprovalWhenCheckDisabled ==
    (Assembled /\ (~opts.check_approval \/ ~opts.builder_check_approval)) =>
        /\ SingleLeadingApproval
        /\ asm.calls = <<>>

C14_Witness ==
    /\ Assembled
    /\ ~opts.builder_check_approval
    /\ opts.is_approved
    /\ SingleLeadingApproval
    /\ Len(build.txs) > 2

SelfTransferOfOneToken ==
    /\ req.from = req.to
    /\ req.options # None
    /\ req.options[1].from_tokens \in {Some(<<t>>) : t \in {WRAPPER_B, WRAPPER_C, AVATAR_FROM}}
    /\ req.options[1].to_tokens \in {Some(<<t>>) : t \in {WRAPPER_B, WRAPPER_C, AVATAR_FROM}}
    /\ req.options[1].from_tokens # req.options[1].to_tokens

FromToken == req.options[1].from_tokens[1][1]

SingleUnwrapOfFromToken ==
    /\ build.kind = "ok"
    /\ Len(build.txs) = 1
    /\ build.txs[1].call.fn = "unwrap"
    /\ build.txs[1].to = FromToken
    /\ build.txs[1].value = 0

\* C16 as stated: such a request returns exactly one unwrap transaction
\* addressed to from_token and issues no pathfinder request, for every
\* from_token (taken for the runs in which the lift contract answers).
C16_SelfUnwrapForEveryToken ==
    (ConstructDone /\ SelfTransferOfOneToken /\ lift.dem # None /\ lift.inf # None) =>
        /\ SingleUnwrapOfFromToken
        /\ ~Requested("findPath")

\* C16, amended: such a request first asks the lift contract for the
\* demurraged and the inflationary wrapper of to_token. If a query fails the
\* build fails; if from_token is one of the two wrappers the build returns
\* exactly one unwrap transaction addressed to from_token with value 0, of
\* the amount (demurraged wrapper) or of its static equivalent at the
\* current time (inflationary wrapper), and issues no pathfinder request;
\* for any other from_token the build continues as a path-based build and
\* does issue the pathfinder request.
C16_SelfUnwrapOfOwnWrapper ==
    (ConstructDone /\ SelfTransferOfOneToken) =>
        /\ lift # NoResult
        /\ calls[1] = "erc20Circles"
        /\ (lift.dem = None \/ lift.inf = None) =>
               /\ FailedWith("Generic")
               /\ build.category = "Transfers"
               /\ ~Requested("findPath")
        /\ (lift.dem # None /\ lift.inf # None) =>
               IF FromToken = lift.dem[1]
               THEN /\ SingleUnwrapOfFromToken
                    /\ build.txs[1].call.args = <<req.amount>>
                    /\ calls = <<"erc20Circles", "erc20Circles">>
               ELSE IF FromToken = lift.inf[1]
               THEN /\ SingleUnwrapOfFromToken
                    /\ \E now \in ClockReadings :
                          build.txs[1].call.args =
                              <<AttoCirclesToAttoStaticCircles(req.amount, None, now)>>
                    /\ calls = <<"erc20Circles", "erc20Circles">>
               ELSE /\ Len(calls) >= 3
                    /\ calls[3] = "findPath"

C16_Witness ==
    /\ ConstructDone
    /\ SelfTransferOfOneToken
    /\ lift.dem = Some(0)
    /\ lift.inf = Some(FromToken)
    /\ SingleUnwrapOfFromToken
    /\ build.txs[1].call.args # <<req.amount>>

\* ================================================== unwrap-list claims
\* C17 as stated: the unwrap calls of a returned list appear in ascending
\* order of wrapper address, whatever order the wrappers are iterated in.
C17_UnwrapsAscendingByWrapper ==
    build.kind = "ok" =>
        \A i \in TxsWith("unwrap"), j \in TxsWith("unwrap") :
            i < j => build.txs[i].to < build.txs[j].to

\* C18 as stated: a returned list has exactly one unwrap call for every
\* wrapper whose used amount is greater than 0, and none for a wrapper whose
\* used amount is 0 nor for a token that is not a wrapper.
C18_UnwrapPerUsedWrapper ==
    build.kind = "ok" =>
        \A w \in {HUB, AVATAR_TO, WRAPPER_B, WRAPPER_C, AVATAR_FROM} :
            Cardinality(UnwrapsOf(w)) =
                IF w \in WrappersKnown /\ UsedAmount(w) > 0 THEN 1 ELSE 0

\* ================================================== amount-domain claims
\* the pathfinder's answer holds a value or a max_flow beyond 192 bits
OutOfDomain ==
    /\ path # NoResult
    /\ \/ path.max_flow > U192_MAX
       \/ \E i \in DOMAIN path.transfers : path.transfers[i].value > U192_MAX

\* C19 as stated: a build whose path holds a value or a max_flow of 2^192 or
\* more fails with AmountOutOfDomain; it never returns transactions made
\* from the clamped amount.
C19_OutOfDomainRejected ==
    (build # NoResult /\ OutOfDomain) =>
        /\ build.kind = "err"
        /\ build.error = "AmountOutOfDomain"

\* ===================================================== capacity claims
\* C20 as stated: create_flow_matrix returns a matrix only when the distinct
\* addresses fit 16-bit indices, and every coordinate of a returned matrix
\* (per step: token owner, sender, receiver of the step; and the source
\* coordinate) is the position of its address in flow_vertices.
C20_CoordinatesAreTruePositions ==
    matrix.kind = "ok" =>
        /\ Len(matrix.flow_vertices) <= U16_MOD - 1
        /\ matrix.source_coordinate = PositionOf(matrix.flow_vertices, sender)
        /\ \A i \in DOMAIN transfers :
              /\ U16At(matrix.packed_coordinates, 3 * (i - 1) + 1)
                     = PositionOf(matrix.flow_vertices, transfers[i].token_owner)
              /\ U16At(matrix.packed_coordinates, 3 * (i - 1) + 2)
                     = PositionOf(matrix.flow_vertices, transfers[i].from_address)
              /\ U16At(matrix.packed_coordinates, 3 * (i - 1) + 3)
                     = PositionOf(matrix.flow_vertices, transfers[i].to_address)

\* ===================================================== empty-path claims
\* C21 as stated: create_flow_matrix called with an empty transfer list
\* returns an error value, for every source, sink and expected value; it
\* neither returns a matrix nor panics.
C21_EmptyTransfersReturnError ==
    (fm_pc = "done" /\ transfers = <<>>) => matrix.kind = "err"

\* ===================================================== target-flow claims
\* C22: the target_flow sent to the pathfinder is the requested amount
\* truncated down to a multiple of the unit: (amount div unit) * unit, hence
\* at most the amount, less than one unit below it, a multiple of the unit,
\* and unchanged by quantizing it again.
C22_TargetFlowIsTruncatedAmount ==
    params # NoResult =>
        /\ Requested("findPath")
        /\ params.target_flow = (req.amount \div SIX_DECIMALS_UNIT) * SIX_DECIMALS_UNIT
        /\ params.target_flow <= req.amount
        /\ req.amount - params.target_flow < SIX_DECIMALS_UNIT
        /\ params.target_flow % SIX_DECIMALS_UNIT = 0
        /\ TruncateToSixDecimals(params.target_flow) = params.target_flow

C22_Witness ==
    /\ params # NoResult
    /\ req.amount = 7
    /\ params.target_flow = 6

\* ================================================ external-request claims
\* position of a service in the order the build addresses the services
Rank(service) ==
    CASE service = "erc20Circles" -> 0
      [] service = "findPath" -> 1
      [] service = "getTokenInfoBatch" -> 2
      [] service = "getTokenBalances" -> 3
      [] service = "isApprovedForAll" -> 4

Times(service) == Cardinality({i \in DOMAIN calls : calls[i] = service})

\* C23 as stated: the requests of one build are the path request, the
\* token-info batch and the balance fetch, in this order and each at most
\* once, and the build has no other external interaction (taken for the
\* builds that are not transfers to oneself).
C23_OnlyThreeInteractions ==
    req.from # req.to =>
        /\ \A i \in DOMAIN calls :
              calls[i] \in {"findPath", "getTokenInfoBatch", "getTokenBalances"}
        /\ \A i \in DOMAIN calls, j \in DOMAIN calls :
              i < j => Rank(calls[i]) < Rank(calls[j])

\* C23, amended: the requests of one build are issued one after the other
\* in the order path request, token-info batch, balance fetch, each at most
\* once; the token infos are requested only once the path is known, the
\* balances only after the wrapped totals were computed and only if a
\* wrapper was observed.  Two further interactions exist: with approval
\* checking enabled the hub is asked for the approval status, once, as the
\* last request and only for a build whose flow matrix was accepted; and a
\* transfer to oneself naming one source and one target token starts with
\* one or two queries of the lift contract.
C23_RequestOrder ==
    /\ \A i \in DOMAIN calls, j \in DOMAIN calls :
          i < j => /\ Rank(calls[i]) <= Rank(calls[j])
                   /\ Rank(calls[i]) = Rank(calls[j]) => calls[i] = "erc20Circles"
    /\ Times("erc20Circles") <= 2
    /\ Requested("erc20Circles") => SelfTransferOfOneToken
    /\ Requested("getTokenInfoBatch") => (Requested("findPath") /\ path # NoResult)
    /\ Requested("getTokenBalances") =>
           /\ Requested("getTokenInfoBatch")
           /\ WrapperObserved
    /\ (ConstructDone /\ asm # NoResult) => (Requested("getTokenBalances") <=> WrapperObserved)
    /\ Requested("isApprovedForAll") =>
           /\ req.builder_check_approval
           /\ build.kind = "ok"
           /\ calls[Len(calls)] = "isApprovedForAll"
    /\ (ConstructDone /\ asm # NoResult /\ build.kind = "ok" /\ req.builder_check_approval)
           => Requested("isApprovedForAll")

C23_Witness ==
    /\ ConstructDone
    /\ calls = <<"findPath", "getTokenInfoBatch", "getTokenBalances", "isApprovedForAll">>

\* ======================================================= converter claims
Epoch == BigFromInt(INFLATION_DAY_ZERO_UNIX)

\* timestamps that fit a 32-bit integer
SmallTimestamp == BigLess(cv_ts, BigFromInt(2147483647))

\* C24 as stated: day_from_timestamp(t) is floor((t - 1_602_720_000) / 86400)
\* for every timestamp t: 0 at the epoch and negative for every earlier t.
C24_DayIsFloor ==
    cv_pc \in {"day", "static", "demurraged", "done"} =>
        IF SmallTimestamp
        THEN /\ cv_day = (BigToInt(cv_ts) - INFLATION_DAY_ZERO_UNIX) \div SECONDS_PER_DAY
             /\ cv_ts = Epoch => cv_day = 0
             /\ BigLess(cv_ts, Epoch) => cv_day < 0
        ELSE /\ cv_day >= 0
             /\ ~BigLess(cv_ts, EpochPlus(cv_day, 0))
             /\ BigLess(cv_ts, EpochPlus(cv_day + 1, 0))

\* C25: for every amount x and every timestamp t before the epoch, both
\* conversions return x unchanged.
C25_IdentityBeforeEpoch ==
    BigLess(cv_ts, Epoch) =>
        /\ cv_pc \in {"static", "demurraged", "done"} => cv_static = cv_x
        /\ cv_pc \in {"demurraged", "done"} => cv_dem = cv_x
        /\ cv_pc = "done" => cv_back = cv_x

\* less than a day before the epoch the day index is 0 and the amount goes
\* through the multiplication
C25_Witness ==
    /\ cv_pc = "done"
    /\ cv_ts = BigFromInt(INFLATION_DAY_ZERO_UNIX - 1)
    /\ cv_day = 0
    /\ cv_x = BigSub(TWO_256, <<1>>)
    /\ cv_static = cv_x
    /\ cv_dem = cv_x

\* |a - b| < n
Within(a, b, n) ==
    /\ BigLess(a, BigAdd(b, BigFromInt(n)))
    /\ BigLess(b, BigAdd(a, BigFromInt(n)))

\* C26: for x <= 1e24 and a timestamp from the epoch to 100 years after it,
\* converting demurraged to static and back at the same timestamp returns a
\* value within 1000 of x; each conversion is (x * pow36(factor, day)) div
\* 1e36 in exact integer arithmetic, pow36 being the binary exponentiation
\* that divides by 1e36 after every multiplication.
C26_RoundTripWithinTolerance ==
    (/\ cv_pc = "done"
     /\ ~BigLess(LimbPow(8), cv_x)
     /\ ~BigLess(cv_ts, Epoch)
     /\ ~BigLess(EpochPlus(36525, 0), cv_ts)) =>
        /\ Within(cv_back, cv_x, 1000)
        /\ cv_static = BigDivPow(BigMul(cv_x, pow36_loop(one_36, beta_36, cv_day)), 12)
        /\ cv_back = BigDivPow(BigMul(cv_static, pow36_loop(one_36, gamma_36, cv_day)), 12)

C26_Witness ==
    /\ cv_pc = "done"
    /\ cv_x = LimbPow(8)
    /\ cv_ts = EpochPlus(36525, 0)
    /\ cv_day = 36525
    /\ cv_static # cv_x
    /\ Within(cv_back, cv_x, 1000)

\* ===================================================== netted-flow claims
\* the sum of the values of the steps of nf_path from index i on that
\* enter a, less the sum of those that leave a
RECURSIVE NetOf(_, _)
NetOf(a, i) ==
    IF i > Len(nf_path)
    THEN 0
    ELSE (IF nf_path[i].to = a THEN nf_path[i].value ELSE 0)
         - (IF nf_path[i].from = a THEN nf_path[i].value ELSE 0)
         + NetOf(a, i + 1)

\* the condition of the claim for the endpoints the function worked with
NettingRule(source, sink) ==
    IF source = sink
    THEN \A a \in NettedAddresses : NetOf(a, 1) = 0
    ELSE /\ NetOf(source, 1) < 0
         /\ NetOf(sink, 1) > 0
         /\ \A a \in NettedAddresses \ {source, sink} : NetOf(a, 1) = 0

\* C27: assert_no_netted_flow_mismatch returns Ok exactly when the source
\* has net < 0, the sink has net > 0 and every other address has net = 0
\* (or, with source = sink, every address has net = 0), where net is the
\* inflow less the outflow over the steps of the path; in every other
\* case it returns an error
C27_OkIffNettingRule ==
    nf_pc = "done" =>
        /\ nf_result.kind \in {"ok", "err"}
        /\ nf_result.kind = "ok" <=>
               (nf_ends # None /\ NettingRule(nf_ends[1][1], nf_ends[1][2]))

\* ===================================================== paged-query claims
\* the rows of the pages the fetcher has returned, in order
RECURSIVE FetchedRowsFrom(_)
FetchedRowsFrom(i) ==
    IF i > Len(pq_fetched)
    THEN <<>>
    ELSE (IF pq_fetched[i].kind = "ok" THEN pq_fetched[i].results ELSE <<>>)
         \o FetchedRowsFrom(i + 1)

\* the rows the stream has yielded, in order
RECURSIVE YieldedRowsFrom(_)
YieldedRowsFrom(i) ==
    IF i > Len(pq_out)
    THEN <<>>
    ELSE (IF pq_out[i].kind = "ok" THEN <<pq_out[i].row>> ELSE <<>>)
         \o YieldedRowsFrom(i + 1)

\* C28: the stream of PagedQuery::into_stream yields, in order, every row
\* of every page the fetcher returned, up to and including the first page
\* whose has_more is false (or until an empty page), and then ends: once it
\* has ended, no row of a fetched page is missing from what it yielded
C28_EveryFetchedRowYielded ==
    pq_pc = "ended" => YieldedRowsFrom(1) = FetchedRowsFrom(1)

\* ======================================================= WebSocket claims
\* min(2^attempt * 1000, 10000)
StatedDelay(attempt) == IF attempt >= 4 THEN 10000 ELSE (2 ^ attempt) * 1000

\* C29: subscribe_with_retries terminates by returning, makes at most
\* max_attempts attempts (5 when absent) whatever max_attempts is, waits
\* min(2^attempt * 1000, 10000) ms after a failed attempt that is not the
\* last, and at the cap returns WsSubscribeFailed with the number of
\* attempts made
C29_BoundedRetriesWithBackoff ==
    /\ ws_attempt <= AttemptCap(ws_max)
    /\ ws_pc # "panicked"
    /\ ws_pc = "sleep" => ws_delay = StatedDelay(ws_attempt)
    /\ ws_result.kind = "WsSubscribeFailed" =>
          /\ ws_result.attempts = ws_attempt
          /\ ws_attempt = AttemptCap(ws_max)

\* C30: with catch_up_from_block = b, every event of a block >= b is in
\* the catch-up list or delivered by the live subscription
C30_NoEventLost ==
    (ws_call = "subscribe_with_catchup" /\ ws_from # None /\ ws_pc = "returned") =>
        \A b \in 1 .. ws_head :
            b >= ws_from[1] =>
                \/ \E i \in DOMAIN ws_catchup : ws_catchup[i] = b
                \/ \E i \in DOMAIN ws_live : ws_live[i] = b

====
